---------------------------- MODULE Spec2Model ----------------------------
(***************************************************************************)
(* Orbit camera and object control of the gem viewer: ZoomControl          *)
(* (src/shared_js/zoomcontrol.js) and RotationControl                      *)
(* (src/unnamed/part_002), as configured by GemPlayer.initControls         *)
(* (src/shared_js/gemplayer.js).                                           *)
(*                                                                         *)
(* Numbers.  Positions are fixed-point integers, PosScale units per world  *)
(* unit, so that base * maxZoom^level is exact for level 0..2.  Camera      *)
(* directions are taken from rational unit vectors, so that                *)
(* Math.sqrt(x*x + y*y + z*z) is exact.  A position is a record            *)
(* [x, y, z, nan]; nan marks the result of 0/0 (NaN in every component).   *)
(* Angles are fixed-point integers, AngleScale units per radian.           *)
(* Time is in milliseconds.                                                *)
(***************************************************************************)
EXTENDS Integers, Sequences, FiniteSets, TLC

(***************************************************************************)
(* Program constants                                                       *)
(***************************************************************************)
\* GemPlayer.Constants, passed to ZoomControl by initControls
mobileWidth == 1024
mobilePosition == 1000
desktopPosition == 800
debounceDelay == 100
\* ZoomControl defaults (initControls passes "maxZoon", so maxZoom keeps its
\* default .675 = 27/40)
MaxZoomNum == 27
MaxZoomDen == 40
minWheelThreshold == 5
MaxZoomLevel == 2

\* GemPlayer.Constants, passed to RotationControl by initControls
VERTICAL_ROTATION_LIMIT == 45
AUTO_ROTATE_DELAY == 5000
AUTO_ROTATE_DURATION == 1600
\* ROTATION_SENSITIVITY 1.0, times mobileSensitivityMultiplier 1.22 on iOS, in percent
SensitivityPct == 100
SensitivityPctIOS == 122
\* EASING_AMOUNT 0.15, times mobileSensitivityMultiplier 1.22 on iOS, per mille
DragEasingPerMille == 150
DragEasingPerMilleIOS == 183
\* Math.PI in angle units
PI == 31416

\* DriftControl: maxRotationDrift (hardcoded), maxRotationAngle, and the delay of
\* the motion detection timer in milliseconds
maxRotationDrift == 15
maxRotationAngle == 45
\* GemPlayer.Constants.MAX_ROTATION_DRIFT, passed to DriftControl by initControls
MAX_ROTATION_DRIFT == 8
\* GemPlayer.Constants.FADE_IN_DELAY, the delay of the safety timer in milliseconds
FADE_IN_DELAY == 100
MotionDetectionDelay == 2000

(***************************************************************************)
(* Bounds of the model                                                     *)
(***************************************************************************)
\* pointer moves accepted by handlePointerMove, per run
MaxMoves == 2
\* drag sessions (pointer-downs that start a session), per run
MaxSessions == 2
\* the rotation clock advances in ticks of about AUTO_ROTATE_DURATION / TicksPerAuto
\* milliseconds, a whole number of tenths of a second
TicksPerAuto == 2
\* the clock advances in ticks of debounceDelay / TicksPerDebounce milliseconds
TicksPerDebounce == 2
\* the drift clock advances in ticks of MotionDetectionDelay / TicksPerDetection ms
TicksPerDetection == 2
\* yaws at rest lie within MaxEighths eighths of a half turn of the start
MaxEighths == 20
\* scene loads per run: the one of connectedCallback and those of url changes
MaxLoads == 3
\* the player clock advances in ticks of FADE_IN_DELAY / TicksPerFade milliseconds
TicksPerFade == 2

PosScale == MaxZoomDen
TickMs == debounceDelay \div TicksPerDebounce

\* inputs
WheelDeltas == {-10, -3, 3, 10}
\* e.scale of a gesturechange event, in percent
GestureScales == {50, 100, 200}
Widths == {768, 1280}
\* rational unit directions <<x, y, z>> / DirNorm(d) reachable by camera orbiting
Directions == {<<0, 0, 1>>, <<3, 4, 0>>}

NoTimer == -1

\* angle units per radian
AngleScale == 100 * 100
\* EASING_THRESHOLD 0.001 rad
RotThreshold == AngleScale \div 1000
RotTickMs == (AUTO_ROTATE_DURATION \div (TicksPerAuto * 100)) * 100
PointerIds == {1, 2}
\* clientX, clientY of pointer events
Points == {<<0, 0>>, <<200, 80>>}

(***************************************************************************)
(* Arithmetic helpers                                                      *)
(***************************************************************************)
Abs(a) == IF a < 0 THEN -a ELSE a

RECURSIVE GCD(_, _)
GCD(a, b) == IF b = 0 THEN a ELSE GCD(b, a % b)

RECURSIVE Pow(_, _)
Pow(b, n) == IF n = 0 THEN 1 ELSE b * Pow(b, n - 1)

\* exact square root of a perfect square
ISqrt(n) == CHOOSE r \in 0..n : r * r = n

\* a * b / c for c > 0, without overflowing on the intermediate product
MulDiv(a, b, c) ==
    LET g == GCD(Abs(a), c)
    IN  ((a \div g) * b) \div (c \div g)

Vec(x, y, z) == [x |-> x, y |-> y, z |-> z, nan |-> FALSE]
NaNVec == [x |-> 0, y |-> 0, z |-> 0, nan |-> TRUE]

\* Math.sqrt(p.x*p.x + p.y*p.y + p.z*p.z), for a position that is not NaN
Norm(p) ==
    LET g == GCD(GCD(Abs(p.x), Abs(p.y)), Abs(p.z))
    IN  IF g = 0 THEN 0
        ELSE g * ISqrt((p.x \div g) * (p.x \div g) + (p.y \div g) * (p.y \div g)
                       + (p.z \div g) * (p.z \div g))

\* direction = currentPos / distance; position = direction * newDistance.
\* distance 0 (or a NaN position) gives 0/0 = NaN in every component.
Rescale(p, newDistance) ==
    IF p.nan \/ Norm(p) = 0 THEN NaNVec
    ELSE Vec(MulDiv(p.x, newDistance, Norm(p)),
             MulDiv(p.y, newDistance, Norm(p)),
             MulDiv(p.z, newDistance, Norm(p)))

VARIABLES
    \* platform and window
    isIOS,              \* /iPad|iPhone|iPod/.test(navigator.userAgent)
    innerWidth,         \* window.innerWidth
    \* camera ViewModel
    camTarget,          \* cameraViewModel.position (the target just set)
    camCurrent,         \* cameraViewModel.currentPosition (the eased position)
    \* ZoomControl
    zoomVM,             \* this.cameraViewModel is bound (not null)
    zoomListeners,      \* window listeners of the instance
    zoomLevel,
    sinceWheel,         \* Date.now() - this.lastWheelTime, capped at debounceDelay
    debounceTimer,      \* milliseconds left on the pending resize timer, or NoTimer
    \* history
    zEv,                \* the ZoomControl step taken last
    \* RotationControl
    rc,                 \* the fields of the RotationControl instance, its pending
                        \* animation-frame callbacks, and what its last step did
    down,               \* the pointers that are down on the canvas
    moves,              \* pointer moves that changed the target rotation so far
    sessions,           \* drag sessions started so far
    \* DriftControl
    dc,                 \* the fields of the DriftControl instance, the camera
                        \* ViewModel it writes, the page around it, and what its
                        \* last step did
    \* GemPlayer
    gp                  \* the fade-in fields of the element, its pending timers,
                        \* the scene loads in flight, and what its last step did

zoomVars == <<isIOS, innerWidth, camTarget, camCurrent, zoomVM, zoomListeners,
              zoomLevel, sinceWheel, debounceTimer, zEv>>

rotVars == <<rc, down, moves, sessions>>

driftVars == <<dc>>

playerVars == <<gp>>

vars == <<zoomVars, rotVars, driftVars, playerVars>>

(***************************************************************************)
(* ZoomControl                                                             *)
(***************************************************************************)
\* const isMobile = window.innerWidth < this.options.mobileWidth;
\* isMobile ? mobilePosition : desktopPosition
BaseDistance(width) ==
    IF width < mobileWidth THEN mobilePosition * PosScale ELSE desktopPosition * PosScale

\* mutant of ZoomDistance: the exponent is dropped (maxZoom applied once)
ZoomDistanceNoPower(width, level) ==
    (BaseDistance(width) * MaxZoomNum) \div MaxZoomDen

\* baseDistance * Math.pow(maxZoom, level)
ZoomDistance(width, level) ==
    (BaseDistance(width) * Pow(MaxZoomNum, level)) \div Pow(MaxZoomDen, level)

\* apply(): the position it writes for the eased position cur
ApplyPosition(cur, width) ==
    IF ~cur.nan /\ Norm(cur) = 0
    THEN Vec(0, 0, BaseDistance(width))
    ELSE Rescale(cur, BaseDistance(width))

\* const currentDirection = e.deltaY < 0 ? 1 : -1;
WheelDirection(deltaY) == IF deltaY < 0 THEN 1 ELSE -1

\* const currentDirection = e.scale < 1 ? 1 : -1;
GestureDirection(scalePct) == IF scalePct < 100 THEN 1 ELSE -1

\* mutant of NewZoomLevel: the upper clamp is missing
NewZoomLevelNoClamp(level, currentDirection) ==
    IF currentDirection < 0 THEN level + 1
    ELSE IF currentDirection > 0 /\ level > 0 THEN level - 1
    ELSE level

\* handleZoom: the new level for a direction, the old level when nothing changes
NewZoomLevel(level, currentDirection) ==
    IF currentDirection < 0 /\ level < MaxZoomLevel THEN level + 1
    ELSE IF currentDirection > 0 /\ level > 0 THEN level - 1
    ELSE level

\* handleZoom(currentDirection)
HandleZoom(currentDirection) ==
    LET newZoomLevel == NewZoomLevel(zoomLevel, currentDirection)
    IN  IF newZoomLevel = zoomLevel
        THEN UNCHANGED <<zoomLevel, camTarget>>
        ELSE /\ zoomLevel' = newZoomLevel
             /\ camTarget' = Rescale(camCurrent, ZoomDistance(innerWidth, newZoomLevel))

\* the magnitude filter of _wheelHandler
WheelPassesThreshold(deltaY) == ~(Abs(deltaY) < minWheelThreshold)

\* mutant of PassesDebounce: no debounce filter
PassesDebounceAlways == TRUE

\* the debounce filter of _wheelHandler and _gestureHandler
PassesDebounce == ~(sinceWheel < debounceDelay)

ZEvent(op, ok, d) == [op |-> op, ok |-> ok, d |-> d, prev |-> zoomLevel]

\* a wheel event on the window
Wheel(deltaY) ==
    /\ "wheel" \in zoomListeners
    /\ IF zoomVM /\ ~isIOS /\ WheelPassesThreshold(deltaY) /\ PassesDebounce
       THEN /\ sinceWheel' = 0
            /\ HandleZoom(WheelDirection(deltaY))
            /\ zEv' = ZEvent("wheel", TRUE, deltaY)
       ELSE /\ UNCHANGED <<sinceWheel, zoomLevel, camTarget>>
            /\ zEv' = ZEvent("wheel", FALSE, deltaY)
    /\ UNCHANGED <<isIOS, innerWidth, camCurrent, zoomVM, zoomListeners, debounceTimer>>
    /\ UNCHANGED <<rotVars, driftVars, playerVars>>

\* a gesturechange event on the window
Gesture(scalePct) ==
    /\ "gesturechange" \in zoomListeners
    /\ IF zoomVM /\ isIOS /\ PassesDebounce
       THEN /\ sinceWheel' = 0
            /\ HandleZoom(GestureDirection(scalePct))
            /\ zEv' = ZEvent("gesture", TRUE, scalePct)
       ELSE /\ UNCHANGED <<sinceWheel, zoomLevel, camTarget>>
            /\ zEv' = ZEvent("gesture", FALSE, scalePct)
    /\ UNCHANGED <<isIOS, innerWidth, camCurrent, zoomVM, zoomListeners, debounceTimer>>
    /\ UNCHANGED <<rotVars, driftVars, playerVars>>

\* the window is resized to width w; _resizeHandler restarts the debounce timer
Resize(w) ==
    /\ w # innerWidth
    /\ innerWidth' = w
    /\ debounceTimer' = IF "resize" \in zoomListeners THEN debounceDelay
                        ELSE debounceTimer
    /\ zEv' = ZEvent("resize", "resize" \in zoomListeners, w)
    /\ UNCHANGED <<isIOS, camTarget, camCurrent, zoomVM, zoomListeners, zoomLevel, sinceWheel>>
    /\ UNCHANGED <<rotVars, driftVars, playerVars>>

\* mutant of ResizeTimerFires: apply() also resets the zoom level
ResizeTimerFiresResetsLevel ==
    /\ debounceTimer # NoTimer
    /\ debounceTimer = 0
    /\ debounceTimer' = NoTimer
    /\ camTarget' = IF zoomVM THEN ApplyPosition(camCurrent, innerWidth) ELSE camTarget
    /\ zoomLevel' = 0
    /\ zEv' = ZEvent("apply", zoomVM, innerWidth)
    /\ UNCHANGED <<isIOS, innerWidth, camCurrent, zoomVM, zoomListeners, sinceWheel>>
    /\ UNCHANGED <<rotVars, driftVars, playerVars>>

\* the debounce timer fires: this.apply()
ResizeTimerFires ==
    /\ debounceTimer # NoTimer
    /\ debounceTimer = 0
    /\ debounceTimer' = NoTimer
    /\ camTarget' = IF zoomVM THEN ApplyPosition(camCurrent, innerWidth) ELSE camTarget
    /\ zEv' = ZEvent("apply", zoomVM, innerWidth)
    /\ UNCHANGED <<isIOS, innerWidth, camCurrent, zoomVM, zoomListeners, zoomLevel, sinceWheel>>
    /\ UNCHANGED <<rotVars, driftVars, playerVars>>

\* the page calls handleZoom(currentDirection): without a camera ViewModel,
\* reading this.cameraViewModel.currentPosition throws a TypeError
HandleZoomCall(currentDirection) ==
    /\ IF zoomVM
       THEN /\ HandleZoom(currentDirection)
            /\ zEv' = ZEvent("handleZoom", TRUE, currentDirection)
       ELSE /\ UNCHANGED <<zoomLevel, camTarget>>
            /\ zEv' = ZEvent("TypeError", FALSE, currentDirection)
    /\ UNCHANGED <<isIOS, innerWidth, camCurrent, zoomVM, zoomListeners, sinceWheel,
                   debounceTimer>>
    /\ UNCHANGED <<rotVars, driftVars, playerVars>>

\* cleanup()
ZoomCleanup ==
    /\ zoomVM
    /\ zoomListeners' = {}
    /\ debounceTimer' = NoTimer
    /\ zoomVM' = FALSE
    /\ zEv' = ZEvent("cleanup", TRUE, 0)
    /\ UNCHANGED <<isIOS, innerWidth, camTarget, camCurrent, zoomLevel, sinceWheel>>
    /\ UNCHANGED <<rotVars, driftVars, playerVars>>

(***************************************************************************)
(* Environment of ZoomControl: the clock, the camera ViewModel's easing    *)
(* and the orbiting of the camera by DriftControl                          *)
(***************************************************************************)
Min(a, b) == IF a < b THEN a ELSE b
Max(a, b) == IF a < b THEN b ELSE a

\* TickMs milliseconds pass
Tick ==
    /\ sinceWheel' = Min(sinceWheel + TickMs, debounceDelay)
    /\ debounceTimer' = IF debounceTimer = NoTimer THEN NoTimer
                        ELSE Max(debounceTimer - TickMs, 0)
    /\ <<sinceWheel, debounceTimer>>' # <<sinceWheel, debounceTimer>>
    /\ UNCHANGED <<isIOS, innerWidth, camTarget, camCurrent, zoomVM, zoomListeners,
                   zoomLevel, zEv>>
    /\ UNCHANGED <<rotVars, driftVars, playerVars>>

\* The ViewModel eases current += (target - current) * factor every frame until
\* current is within its threshold of the target, and then rests on the target.
\* EaseToRest is the position the frames end on.
EaseToRest(cur, tgt) == IF tgt.nan \/ cur.nan THEN NaNVec ELSE tgt

CameraFrame ==
    /\ camCurrent # camTarget
    /\ camCurrent' = EaseToRest(camCurrent, camTarget)
    /\ UNCHANGED <<isIOS, innerWidth, camTarget, zoomVM, zoomListeners,
                   zoomLevel, sinceWheel, debounceTimer, zEv>>
    /\ UNCHANGED <<rotVars, driftVars, playerVars>>

DirVec(d) == Vec(d[1], d[2], d[3])

\* DriftControl moves the camera on its sphere: the target keeps its distance from
\* the origin and the eased position follows into the new direction
CameraOrbit(d) ==
    /\ ~camTarget.nan /\ ~camCurrent.nan
    /\ Norm(camTarget) # 0 /\ Norm(camCurrent) # 0
    /\ camTarget' = Rescale(DirVec(d), Norm(camTarget))
    /\ camCurrent' = Rescale(DirVec(d), Norm(camCurrent))
    /\ camTarget' # camTarget
    /\ zEv' = ZEvent("orbit", TRUE, 0)
    /\ UNCHANGED <<isIOS, innerWidth, zoomVM, zoomListeners,
                   zoomLevel, sinceWheel, debounceTimer>>
    /\ UNCHANGED <<rotVars, driftVars, playerVars>>

(***************************************************************************)
(* RotationControl                                                         *)
(***************************************************************************)
\* a rotation {x, y, z}
Rot(x, y) == [x |-> x, y |-> y, z |-> 0]

\* a / b rounded toward zero, for b > 0
TDiv(a, b) == IF a >= 0 THEN a \div b ELSE -((-a) \div b)

\* Math.round(a / b) for b > 0: halves round up
RoundDiv(a, b) == (2 * a + b) \div (2 * b)

\* mutant of Sensitivity: no mobileSensitivityMultiplier
SensitivityAsConfigured == SensitivityPct

\* options.sensitivity and options.dragEasing
Sensitivity == IF isIOS THEN SensitivityPctIOS ELSE SensitivityPct
DragEasing == IF isIOS THEN DragEasingPerMilleIOS ELSE DragEasingPerMille

\* deltaMove * this.options.sensitivity * 0.01, in angle units
DeltaAngle(d) == (d * Sensitivity * AngleScale) \div (100 * 100)

\* (this.options.verticalLimit * Math.PI) / 180
VerticalLimitRadians == (VERTICAL_ROTATION_LIMIT * PI) \div 180

\* mutant of ClampVertical: no vertical limit
ClampVerticalNone(newTargetX) == newTargetX

\* Math.max(-verticalLimitRadians, Math.min(verticalLimitRadians, newTargetX))
ClampVertical(newTargetX) == Max(-VerticalLimitRadians, Min(VerticalLimitRadians, newTargetX))

\* current += (target - current) * this.options.dragEasing
Lerp(cur, tgt) == cur + TDiv((tgt - cur) * DragEasing, 1000)

\* mutant of FindNearestCardinalRotation: Math.floor in place of Math.round
FindCardinalRotationBelow(y) == (((y * 180) \div (PI * 180)) * 180 * PI) \div 180

\* findNearestCardinalRotation: to degrees, nearest multiple of 180, back to radians
FindNearestCardinalRotation(y) == (RoundDiv(y * 180, PI * 180) * 180 * PI) \div 180

\* mutant of EaseInOutQuadNum: the first branch for every t
EaseInQuadNum(n, d) == 2 * n * n

\* easeInOutQuad(t) for t = n / d, as a numerator over d * d:
\* t < 0.5 ? 2 * t * t : -1 + (4 - 2 * t) * t
EaseInOutQuadNum(n, d) == IF 2 * n < d THEN 2 * n * n ELSE -(d * d) + (4 * d - 2 * n) * n

\* pending requestAnimationFrame callbacks: the animate closure of the drag loop,
\* of the momentum loop, or of an auto-rotation (startRotation, targetY and the
\* time since startTime); stale records that a pointerdown event arrived since the
\* auto-rotation started
NoFrame ==
    [kind |-> "none", sx |-> 0, sy |-> 0, targetY |-> 0, elapsed |-> 0, stale |-> FALSE]
DragFrame ==
    [kind |-> "drag", sx |-> 0, sy |-> 0, targetY |-> 0, elapsed |-> 0, stale |-> FALSE]
MomentumFrame ==
    [kind |-> "momentum", sx |-> 0, sy |-> 0, targetY |-> 0, elapsed |-> 0, stale |-> FALSE]
AutoFrame(start, targetY) ==
    [kind |-> "auto", sx |-> start.x, sy |-> start.y, targetY |-> targetY, elapsed |-> 0,
     stale |-> FALSE]

\* event listeners: the event type and the function object registered for it;
\* method.bind(this) makes a new function object, distinct from the method
BoundHandler(method) == <<"bound", method>>
Method(method) == <<"method", method>>
RemoveEventListener(listeners, type, fn) == listeners \ {<<type, fn>>}

\* init(): the listeners added to the canvas
RotationListeners ==
    {<<"pointerdown", BoundHandler("handlePointerDown")>>,
     <<"pointermove", BoundHandler("handlePointerMove")>>,
     <<"pointerup", BoundHandler("handlePointerUp")>>,
     <<"pointerleave", BoundHandler("handlePointerLeave")>>}

\* the state after the constructor
RotationControlNew ==
    [isDragging |-> FALSE,
     previousMousePosition |-> <<0, 0>>,
     targetRotation |-> Rot(0, 0),
     currentRotation |-> Rot(0, 0),
     isAnimating |-> FALSE,
     animationFrameId |-> NoFrame,
     hasManualRotation |-> FALSE,
     autoRotateTimer |-> NoTimer,       \* milliseconds left, or NoTimer
     isAutoRotating |-> FALSE,
     activePointers |-> {},
     frames |-> {},                     \* callbacks requested and not yet run
     listeners |-> RotationListeners,   \* listeners of the instance on the canvas
     gemViewModel |-> TRUE,             \* this.gemViewModel is not null
     gemRotation |-> Rot(0, 0),         \* gemViewModel.rotation
     \* what the last step did
     op |-> "new",
     events |-> <<>>,                   \* custom events it dispatched on the canvas
     rested |-> FALSE,                  \* the momentum loop came to rest in it
     timerCleared |-> FALSE,            \* it cleared a pending auto-rotate timer
     startOpen |-> FALSE,               \* the latest of the rotationstart and rotationend
                                        \* events dispatched so far is a rotationstart
     multiCancelled |-> FALSE,          \* a second pointer cancelled the session and
                                        \* no session has started since
     sessionMoved |-> FALSE,            \* a pointer-move was accepted in the latest session
     staleWrite |-> FALSE,              \* an auto-rotation frame wrote the rotations after
                                        \* a pointerdown event
     cleaned |-> FALSE]                 \* cleanup() has been called

\* the start of a handler or callback
Begin(s, op) ==
    [s EXCEPT !.op = op, !.events = <<>>, !.rested = FALSE, !.timerCleared = FALSE,
              !.staleWrite = FALSE]

\* this.canvas.dispatchEvent(new CustomEvent(name, { detail }))
Dispatch(s, name, detail) ==
    [s EXCEPT !.events = Append(@, <<name, detail>>),
              !.startOpen = CASE name = "rotationstart" -> TRUE
                              [] name = "rotationend" -> FALSE
                              [] OTHER -> @]

\* updateGemRotation()
UpdateGemRotation(s) ==
    IF ~s.gemViewModel THEN s ELSE [s EXCEPT !.gemRotation = s.currentRotation]

\* this.animationFrameId = requestAnimationFrame(animate)
RequestFrame(s, f) == [s EXCEPT !.frames = @ \cup {f}, !.animationFrameId = f]

\* the lerp both loops start a frame with
LerpCurrent(s) ==
    [s EXCEPT !.currentRotation.x = Lerp(@, s.targetRotation.x),
              !.currentRotation.y = Lerp(@, s.targetRotation.y)]

WithinThreshold(s) ==
    /\ Abs(s.targetRotation.x - s.currentRotation.x) <= RotThreshold
    /\ Abs(s.targetRotation.y - s.currentRotation.y) <= RotThreshold

\* mutant of MomentumAnimate: the timer is armed whether or not the user rotated
MomentumAnimateAlwaysArms(s) ==
    LET s1 == UpdateGemRotation(LerpCurrent(s))
    IN  IF WithinThreshold(s1)
        THEN [s1 EXCEPT !.isAnimating = FALSE,
                        !.animationFrameId = NoFrame,
                        !.currentRotation.y = s1.targetRotation.y,
                        !.rested = TRUE,
                        !.autoRotateTimer = AUTO_ROTATE_DELAY]
        ELSE RequestFrame(s1, MomentumFrame)

\* animate of startMomentumAnimation
MomentumAnimate(s) ==
    LET s1 == UpdateGemRotation(LerpCurrent(s))
    IN  IF WithinThreshold(s1)
        THEN LET s2 == [s1 EXCEPT !.isAnimating = FALSE,
                                  !.animationFrameId = NoFrame,
                                  !.currentRotation.y = s1.targetRotation.y,
                                  !.rested = TRUE]
             IN  IF s2.hasManualRotation
                 THEN [s2 EXCEPT !.autoRotateTimer = AUTO_ROTATE_DELAY]
                 ELSE s2
        ELSE RequestFrame(s1, MomentumFrame)

\* startMomentumAnimation()
StartMomentumAnimation(s) ==
    IF s.isAnimating \/ s.isDragging THEN s
    ELSE MomentumAnimate([s EXCEPT !.isAnimating = TRUE])

\* animate of startRotationAnimation
DragAnimate(s) ==
    LET s1 == UpdateGemRotation(LerpCurrent(s))
    IN  IF s1.isDragging \/ ~WithinThreshold(s1)
        THEN RequestFrame(s1, DragFrame)
        ELSE StartMomentumAnimation([s1 EXCEPT !.isAnimating = FALSE,
                                               !.animationFrameId = NoFrame])

\* startRotationAnimation()
StartRotationAnimation(s) ==
    IF s.isAnimating THEN s
    ELSE DragAnimate([s EXCEPT !.isAnimating = TRUE])

\* mutant of HandlePointerUp: rotationend reports the movement of the session
HandlePointerUpReportsSession(s, hasE, id) ==
    LET s1 == IF isIOS /\ hasE THEN [s EXCEPT !.activePointers = @ \ {id}] ELSE s
        s2 == [s1 EXCEPT !.isDragging = FALSE]
    IN  StartMomentumAnimation(Dispatch(s2, "rotationend", s2.sessionMoved))

\* handlePointerUp(e); hasE is false for the calls without an event
HandlePointerUp(s, hasE, id) ==
    LET s1 == IF isIOS /\ hasE THEN [s EXCEPT !.activePointers = @ \ {id}] ELSE s
        s2 == [s1 EXCEPT !.isDragging = FALSE]
    IN  StartMomentumAnimation(Dispatch(s2, "rotationend", s2.hasManualRotation))

\* mutant of HandlePointerDown: no return after the multi-pointer cancel
HandlePointerDownFallsThrough(s, id, pt) ==
    LET s1 == IF isIOS THEN [s EXCEPT !.activePointers = @ \cup {id}] ELSE s
        s2 == IF isIOS /\ Cardinality(s1.activePointers) > 1
              THEN HandlePointerUp([s1 EXCEPT !.multiCancelled = TRUE], FALSE, id)
              ELSE [s1 EXCEPT !.multiCancelled = FALSE, !.sessionMoved = FALSE]
    IN  Dispatch([s2 EXCEPT !.isDragging = TRUE,
                            !.previousMousePosition = pt,
                            !.autoRotateTimer = NoTimer,
                            !.isAutoRotating = FALSE],
                 "rotationstart", FALSE)

\* mutant of HandlePointerDown: the timer is cleared only during an auto-rotation
HandlePointerDownClearsWhenRotating(s, id, pt) ==
    LET s1 == IF isIOS THEN [s EXCEPT !.activePointers = @ \cup {id}] ELSE s
    IN  IF isIOS /\ Cardinality(s1.activePointers) > 1
        THEN HandlePointerUp([s1 EXCEPT !.multiCancelled = TRUE], FALSE, id)
        ELSE Dispatch([s1 EXCEPT !.isDragging = TRUE,
                                 !.previousMousePosition = pt,
                                 !.autoRotateTimer = IF s1.isAutoRotating THEN NoTimer ELSE @,
                                 !.isAutoRotating = FALSE,
                                 !.multiCancelled = FALSE,
                                 !.sessionMoved = FALSE],
                      "rotationstart", FALSE)

\* mutant of HandlePointerDown: the auto-rotate timer is left pending
HandlePointerDownKeepsTimer(s, id, pt) ==
    LET s1 == IF isIOS THEN [s EXCEPT !.activePointers = @ \cup {id}] ELSE s
    IN  IF isIOS /\ Cardinality(s1.activePointers) > 1
        THEN HandlePointerUp([s1 EXCEPT !.multiCancelled = TRUE], FALSE, id)
        ELSE Dispatch([s1 EXCEPT !.isDragging = TRUE,
                                 !.previousMousePosition = pt,
                                 !.isAutoRotating = FALSE,
                                 !.multiCancelled = FALSE,
                                 !.sessionMoved = FALSE],
                      "rotationstart", FALSE)

\* handlePointerDown(e)
HandlePointerDown(s, id, pt) ==
    LET s1 == IF isIOS THEN [s EXCEPT !.activePointers = @ \cup {id}] ELSE s
    IN  IF isIOS /\ Cardinality(s1.activePointers) > 1
        THEN HandlePointerUp([s1 EXCEPT !.multiCancelled = TRUE], FALSE, id)
        ELSE Dispatch([s1 EXCEPT !.isDragging = TRUE,
                                 !.previousMousePosition = pt,
                                 !.autoRotateTimer = NoTimer,
                                 !.timerCleared = (s1.autoRotateTimer # NoTimer),
                                 !.isAutoRotating = FALSE,
                                 !.multiCancelled = FALSE,
                                 !.sessionMoved = FALSE],
                      "rotationstart", FALSE)

\* handlePointerMove(e)
HandlePointerMove(s, id, pt) ==
    IF ~s.isDragging THEN s
    ELSE IF isIOS /\ Cardinality(s.activePointers) > 1
    THEN HandlePointerUp(s, FALSE, id)
    ELSE LET dx == pt[1] - s.previousMousePosition[1]
             dy == pt[2] - s.previousMousePosition[2]
             newTargetX == s.targetRotation.x + DeltaAngle(dy)
         IN  StartRotationAnimation(
                 [s EXCEPT !.targetRotation.y = @ + DeltaAngle(dx),
                           !.targetRotation.x = ClampVertical(newTargetX),
                           !.previousMousePosition = pt,
                           !.hasManualRotation = TRUE,
                           !.sessionMoved = TRUE])

\* handlePointerLeave(e)
HandlePointerLeave(s, id) ==
    LET s1 == IF isIOS THEN [s EXCEPT !.activePointers = @ \ {id}] ELSE s
    IN  IF s1.isDragging THEN HandlePointerUp(s1, TRUE, id) ELSE s1

\* animate(currentTime) of startAutoRotation, for the closure f
AutoAnimate(s, f) ==
    IF s.isDragging
    THEN [s EXCEPT !.isAutoRotating = FALSE, !.animationFrameId = NoFrame]
    ELSE LET \* progress = Math.min(elapsed / autoRotateDuration, 1) = n / d
             e == Min(f.elapsed, AUTO_ROTATE_DURATION)
             g == GCD(e, AUTO_ROTATE_DURATION)
             n == e \div g
             d == AUTO_ROTATE_DURATION \div g
             eased == EaseInOutQuadNum(n, d)
             cx == TDiv(f.sx * (d * d - eased), d * d)
             cy == f.sy + TDiv((f.targetY - f.sy) * eased, d * d)
             s1 == UpdateGemRotation([s EXCEPT !.currentRotation = Rot(cx, cy),
                                              !.targetRotation = Rot(cx, cy),
                                              !.staleWrite = f.stale])
         IN  IF n < d
             THEN RequestFrame(s1, f)
             ELSE Dispatch([s1 EXCEPT !.isAutoRotating = FALSE,
                                      !.animationFrameId = NoFrame,
                                      !.hasManualRotation = FALSE,
                                      !.currentRotation.y = f.targetY,
                                      !.targetRotation.y = f.targetY],
                           "autorotationcomplete", FALSE)

\* startAutoRotation()
StartAutoRotation(s) ==
    IF s.isAutoRotating \/ s.isDragging THEN s
    ELSE AutoAnimate([s EXCEPT !.isAutoRotating = TRUE],
                     AutoFrame(s.currentRotation,
                               FindNearestCardinalRotation(s.currentRotation.y)))

\* cleanup()
Cleanup(s) ==
    LET s1 == [s EXCEPT !.listeners =
                  RemoveEventListener(
                    RemoveEventListener(
                      RemoveEventListener(
                        RemoveEventListener(@, "pointerdown", Method("handlePointerDown")),
                        "pointermove", Method("handlePointerMove")),
                      "pointerup", Method("handlePointerUp")),
                    "pointerleave", Method("handlePointerLeave"))]
        s2 == IF s1.animationFrameId # NoFrame
              THEN [s1 EXCEPT !.frames = @ \ {s1.animationFrameId},
                              !.animationFrameId = NoFrame]
              ELSE s1
        s3 == [s2 EXCEPT !.autoRotateTimer = NoTimer]
    IN  [s3 EXCEPT !.activePointers = {}]

\* the canvas delivers events of this type to a handler of the instance
Listens(type) == \E l \in rc.listeners : l[1] = type

\* the pending auto-rotation callbacks have seen a pointerdown event
Stale(f) == IF f.kind = "auto" THEN [f EXCEPT !.stale = TRUE] ELSE f

SeenPointerDown(s) ==
    [s EXCEPT !.frames = {Stale(f) : f \in @}, !.animationFrameId = Stale(@)]

\* a pointerdown event on the canvas
PointerDown(id, pt) ==
    /\ Listens("pointerdown")
    /\ id \notin down
    /\ rc' = SeenPointerDown(HandlePointerDown(Begin(rc, "pointerdown"), id, pt))
    /\ rc'.isDragging => sessions < MaxSessions
    /\ sessions' = IF rc'.isDragging THEN sessions + 1 ELSE sessions
    /\ down' = down \cup {id}
    /\ UNCHANGED moves
    /\ UNCHANGED <<zoomVars, driftVars, playerVars>>

\* a pointermove event on the canvas
PointerMove(id, pt) ==
    /\ Listens("pointermove")
    /\ id \in down
    /\ rc.isDragging => moves < MaxMoves
    /\ rc' = HandlePointerMove(Begin(rc, "pointermove"), id, pt)
    /\ moves' = IF rc.isDragging THEN moves + 1 ELSE moves
    /\ UNCHANGED <<down, sessions>>
    /\ UNCHANGED <<zoomVars, driftVars, playerVars>>

\* a pointerup event on the canvas
PointerUp(id) ==
    /\ Listens("pointerup")
    /\ id \in down
    /\ rc' = HandlePointerUp(Begin(rc, "pointerup"), TRUE, id)
    /\ down' = down \ {id}
    /\ UNCHANGED <<moves, sessions>>
    /\ UNCHANGED <<zoomVars, driftVars, playerVars>>

\* a pointerleave event on the canvas: the pointer is no longer over it
PointerLeave(id) ==
    /\ Listens("pointerleave")
    /\ id \in down
    /\ rc' = HandlePointerLeave(Begin(rc, "pointerleave"), id)
    /\ down' = down \ {id}
    /\ UNCHANGED <<moves, sessions>>
    /\ UNCHANGED <<zoomVars, driftVars, playerVars>>

\* the browser runs the pending animation-frame callback f
Frame(f) ==
    /\ f \in rc.frames
    /\ LET s == [Begin(rc, f.kind) EXCEPT !.frames = @ \ {f}]
       IN  rc' = CASE f.kind = "drag" -> DragAnimate(s)
                   [] f.kind = "momentum" -> MomentumAnimate(s)
                   [] f.kind = "auto" -> AutoAnimate(s, f)
    /\ UNCHANGED <<down, moves, sessions>>
    /\ UNCHANGED <<zoomVars, driftVars, playerVars>>

\* the auto-rotate delay timer fires: this.startAutoRotation()
AutoRotateTimerFires ==
    /\ rc.autoRotateTimer = 0
    /\ rc' = StartAutoRotation([Begin(rc, "timer") EXCEPT !.autoRotateTimer = NoTimer])
    /\ UNCHANGED <<down, moves, sessions>>
    /\ UNCHANGED <<zoomVars, driftVars, playerVars>>

\* RotTickMs milliseconds pass
Later(f) ==
    IF f.kind = "auto"
    THEN [f EXCEPT !.elapsed = Min(@ + RotTickMs, AUTO_ROTATE_DURATION)]
    ELSE f

RotTick ==
    /\ rc' = [Begin(rc, "tick") EXCEPT
                !.autoRotateTimer = IF @ = NoTimer THEN NoTimer ELSE Max(@ - RotTickMs, 0),
                !.frames = {Later(f) : f \in @},
                !.animationFrameId = Later(@)]
    /\ <<rc.autoRotateTimer, rc.frames>> # <<rc'.autoRotateTimer, rc'.frames>>
    /\ UNCHANGED <<down, moves, sessions>>
    /\ UNCHANGED <<zoomVars, driftVars, playerVars>>

(***************************************************************************)
(* DriftControl (the liveness-checked variant)                             *)
(***************************************************************************)
\* floor of the square root, by bisection
RECURSIVE SqrtBetween(_, _, _)
SqrtBetween(n, lo, hi) ==
    IF lo >= hi THEN lo
    ELSE LET mid == (lo + hi + 1) \div 2
         IN  IF mid * mid <= n THEN SqrtBetween(n, mid, hi)
             ELSE SqrtBetween(n, lo, mid - 1)

Sqrt(n) == SqrtBetween(n, 0, Min(n, 46340))

\* Normalized values (-1...1) are kept in units of 1 / ValueScale.
ValueScale == 2

\* Math.max(-1, Math.min(1, value))
ClampUnit(k) == Max(-ValueScale, Min(ValueScale, k))

\* degreesToRadians(value * maxRotationDrift): the angle, negated, in units of
\* maxRotationDrift / ValueScale degrees
DriftAngle(k) == -k

\* Math.sin and Math.cos of such an angle as <<sin * h, cos * h, h>>: the rational
\* point of the unit circle next to the angle (0, 7.6 and 14.3 degrees), so that
\* sin^2 + cos^2 = 1 holds exactly
SinCos(a) ==
    CASE a = 0 -> <<0, 1, 1>>
      [] a = 1 -> <<15, 112, 113>>
      [] a = -1 -> <<-15, 112, 113>>
      [] a = 2 -> <<16, 63, 65>>
      [] a = -2 -> <<-16, 63, 65>>

\* A camera position is r * n / d: a length r in units of 1 / PosScale and an
\* integer vector n over d.
Pos(r, n, d) ==
    LET g == GCD(GCD(GCD(Abs(n[1]), Abs(n[2])), Abs(n[3])), d)
    IN  [r |-> r, n |-> <<n[1] \div g, n[2] \div g, n[3] \div g>>, d |-> d \div g]

SumSq(n) == n[1] * n[1] + n[2] * n[2] + n[3] * n[3]

\* Math.sqrt(x * x + y * y + z * z) for the position p
Radius(p) == MulDiv(p.r, Sqrt(SumSq(p.n)), p.d)

\* mutant of OrbitDirection: x without the factor sin(basePhi)
OrbitDirectionNoPhi(theta, verticalOffset) ==
    LET t == SinCos(theta)
        v == SinCos(verticalOffset)
    IN  [n |-> <<-(v[3] * t[1]), -(v[1] * t[3]), v[2] * t[2]>>, d |-> v[3] * t[3]]

\* the desktop branch: basePhi = PI / 2 + verticalOffset, so that sin(basePhi) =
\* cos(verticalOffset) and cos(basePhi) = -sin(verticalOffset);
\* (-sin(basePhi) sin(baseTheta), cos(basePhi), sin(basePhi) cos(baseTheta))
OrbitDirection(theta, verticalOffset) ==
    LET t == SinCos(theta)
        v == SinCos(verticalOffset)
    IN  [n |-> <<-(v[2] * t[1]), -(v[1] * t[3]), v[2] * t[2]>>, d |-> v[3] * t[3]]

\* mutant of LevelDirection: y follows the angle as well
LevelDirectionTilted(horizontalAngle) ==
    LET t == SinCos(horizontalAngle)
    IN  [n |-> <<t[1], t[1], t[2]>>, d |-> t[3]]

\* the iOS branch: (sin(horizontalAngle), 0, cos(horizontalAngle))
LevelDirection(horizontalAngle) ==
    LET t == SinCos(horizontalAngle)
    IN  [n |-> <<t[1], 0, t[2]>>, d |-> t[3]]

\* the look-at rotation: the direction from the position to the origin, NaN when
\* its length is 0, and the roll z
LookAt(p, level) ==
    LET n == IF level THEN <<-p.n[1], 0, -p.n[3]>> ELSE <<-p.n[1], -p.n[2], -p.n[3]>>
    IN  IF p.r = 0 \/ SumSq(n) = 0 THEN [n |-> <<0, 0, 0>>, d |-> 1, nan |-> TRUE, z |-> 0]
        ELSE [n |-> n, d |-> Sqrt(SumSq(n)), nan |-> FALSE, z |-> 0]

NoOrientation == [null |-> TRUE, beta |-> 0, gamma |-> 0]
Orientation(beta, gamma) == [null |-> FALSE, beta |-> beta, gamma |-> gamma]

\* the canvas on the page: getBoundingClientRect()
CanvasRect == [left |-> 0, top |-> 0, width |-> 400, height |-> 200]

\* clientX, clientY of pointermove events over the canvas, and one outside
HoverPoints == {<<200, 100>>, <<300, 50>>, <<0, 200>>, <<600, 250>>}

\* beta and gamma of deviceorientation events, in degrees; or null
OrientationSamples ==
    {NoOrientation, Orientation(0, 0), Orientation(23, 23), Orientation(0, 90)}

\* window.orientation at construction
ScreenOrientations == {0, 90}

\* the values window.orientation takes as the device is turned
WindowOrientations == {0, 90, -90, 180}

\* the state after the constructor, for a camera at the position p
DriftControlNew(p, screenOrientation, needsRequest) ==
    [enabled |-> TRUE,
     driftHandler |-> TRUE,            \* this._driftHandler is not null
     orientationHandler |-> FALSE,     \* this._orientationHandler is not null
     listeners |-> {<<"canvas", "pointermove">>},
     windowListeners |-> 0,            \* deviceorientation listeners on the window
     motionDetectionTimer |-> NoTimer, \* milliseconds left, or NoTimer
     timers |-> 0,                     \* motion detection timers pending
     motionDetected |-> FALSE,
     initialOrientation |-> NoOrientation,
     hasMotionPermission |-> TRUE,
     screenOrientation |-> screenOrientation,
     \* orbitControl, the angles in units of maxRotationDrift / ValueScale degrees,
     \* basePhi less the quarter turn
     orbitControl |-> [baseTheta |-> 0, basePhi |-> 0],
     \* the camera ViewModel
     cameraViewModel |-> TRUE,         \* this.cameraViewModel is not null
     position |-> p,
     rotation |-> [n |-> <<0, 0, 0>>, d |-> 1, nan |-> FALSE, z |-> 0],
     \* the page
     needsRequest |-> needsRequest,    \* DeviceOrientationEvent.requestPermission exists
     windowOrientation |-> screenOrientation,  \* window.orientation
     overlayVisible |-> FALSE,         \* #panel-overlay
     clickListeners |-> 0,             \* handleClick closures listening on the overlay
     requests |-> 0,                   \* permission requests awaiting their answer
     storageGranted |-> FALSE,         \* localStorage motionPermissionGranted
     \* what the last step did
     op |-> "new",
     applied |-> FALSE,                \* it wrote the camera position
     event |-> NoOrientation,          \* the deviceorientation event it handled
     answer |-> "none",                \* the answer to the permission request
     removedHandler |-> FALSE,         \* initOrientationHandler removed the handler
                                       \* of an earlier call
     \* history
     cleaned |-> FALSE,                \* cleanup() has been called
     eventSinceGrant |-> FALSE]        \* a deviceorientation event with readings was
                                       \* delivered since the latest grant

\* the start of a handler or callback of DriftControl
DriftBegin(s, op) ==
    [s EXCEPT !.op = op, !.applied = FALSE, !.event = NoOrientation, !.answer = "none",
              !.removedHandler = FALSE]

\* applyNormalizedRotations(horizontalValue, verticalValue)
ApplyNormalizedRotations(s, horizontalValue, verticalValue) ==
    LET radius == Radius(s.position)
        dir == IF isIOS
               THEN LevelDirection(DriftAngle(horizontalValue))
               ELSE OrbitDirection(DriftAngle(horizontalValue), DriftAngle(verticalValue))
        position == Pos(radius, dir.n, dir.d)
    IN  IF ~s.cameraViewModel THEN s
        ELSE [s EXCEPT !.orbitControl =
                           IF isIOS THEN @
                           ELSE [baseTheta |-> DriftAngle(horizontalValue),
                                 basePhi |-> DriftAngle(verticalValue)],
                       !.position = position,
                       !.rotation = LookAt(position, isIOS),
                       !.applied = TRUE]

\* the delta from the centre over half the extent, in units of 1 / ValueScale
NormalizedDelta(mouse, centre, extent) == TDiv(ValueScale * 2 * (mouse - centre), extent)

\* apply(mouseX, mouseY)
DriftApply(s, mouseX, mouseY) ==
    LET centerX == CanvasRect.left + CanvasRect.width \div 2
        centerY == CanvasRect.top + CanvasRect.height \div 2
        deltaX == NormalizedDelta(mouseX, centerX, CanvasRect.width)
        deltaY == NormalizedDelta(mouseY, centerY, CanvasRect.height)
    IN  IF ~s.cameraViewModel THEN s
        ELSE ApplyNormalizedRotations(s, ClampUnit(deltaX), -ClampUnit(deltaY))

\* mutant of DriftHandler: this.enabled is not consulted
DriftHandlerAlways(s, pt) == DriftApply(s, pt[1], pt[2])

\* _driftHandler(e)
DriftHandler(s, pt) == IF s.enabled THEN DriftApply(s, pt[1], pt[2]) ELSE s

\* mutant of OrientationHandler: null readings are not tested and count as 0
OrientationHandlerNoNullTest(s, e) ==
    IF ~s.enabled THEN s
    ELSE LET s1 == [s EXCEPT !.motionDetected = TRUE]
         IN  IF s1.initialOrientation.null
             THEN [s1 EXCEPT !.initialOrientation = Orientation(e.beta, e.gamma)]
             ELSE LET dg == e.gamma - s1.initialOrientation.gamma
                      db == e.beta - s1.initialOrientation.beta
                      deltaGamma == CASE s1.screenOrientation = 90 -> -db
                                      [] s1.screenOrientation = -90 -> db
                                      [] s1.screenOrientation = 180 -> -dg
                                      [] OTHER -> dg
                      deltaBeta == CASE s1.screenOrientation = 90 -> dg
                                     [] s1.screenOrientation = -90 -> -dg
                                     [] s1.screenOrientation = 180 -> -db
                                     [] OTHER -> db
                      horizontalValue ==
                          ClampUnit(TDiv(ValueScale * deltaGamma, maxRotationAngle))
                      verticalValue ==
                          ClampUnit(TDiv(ValueScale * deltaBeta, maxRotationAngle))
                  IN  ApplyNormalizedRotations(s1, horizontalValue, verticalValue)

\* mutant of OrientationHandler: the reference follows the latest sample
OrientationHandlerFollows(s, e) ==
    IF ~s.enabled THEN s
    ELSE IF e.null THEN s
    ELSE LET s1 == [s EXCEPT !.motionDetected = TRUE]
         IN  IF s1.initialOrientation.null
             THEN [s1 EXCEPT !.initialOrientation = Orientation(e.beta, e.gamma)]
             ELSE LET dg == e.gamma - s1.initialOrientation.gamma
                      db == e.beta - s1.initialOrientation.beta
                      deltaGamma == CASE s1.screenOrientation = 90 -> -db
                                      [] s1.screenOrientation = -90 -> db
                                      [] s1.screenOrientation = 180 -> -dg
                                      [] OTHER -> dg
                      deltaBeta == CASE s1.screenOrientation = 90 -> dg
                                     [] s1.screenOrientation = -90 -> -dg
                                     [] s1.screenOrientation = 180 -> -db
                                     [] OTHER -> db
                      horizontalValue ==
                          ClampUnit(TDiv(ValueScale * deltaGamma, maxRotationAngle))
                      verticalValue ==
                          ClampUnit(TDiv(ValueScale * deltaBeta, maxRotationAngle))
                  IN  [ApplyNormalizedRotations(s1, horizontalValue, verticalValue)
                         EXCEPT !.initialOrientation = Orientation(e.beta, e.gamma)]

\* _orientationHandler(e)
OrientationHandler(s, e) ==
    IF ~s.enabled THEN s
    ELSE IF e.null THEN s
    ELSE LET s1 == [s EXCEPT !.motionDetected = TRUE]
         IN  IF s1.initialOrientation.null
             THEN [s1 EXCEPT !.initialOrientation = Orientation(e.beta, e.gamma)]
             ELSE LET dg == e.gamma - s1.initialOrientation.gamma
                      db == e.beta - s1.initialOrientation.beta
                      deltaGamma == CASE s1.screenOrientation = 90 -> -db
                                      [] s1.screenOrientation = -90 -> db
                                      [] s1.screenOrientation = 180 -> -dg
                                      [] OTHER -> dg
                      deltaBeta == CASE s1.screenOrientation = 90 -> dg
                                     [] s1.screenOrientation = -90 -> -dg
                                     [] s1.screenOrientation = 180 -> -db
                                     [] OTHER -> db
                      horizontalValue ==
                          ClampUnit(TDiv(ValueScale * deltaGamma, maxRotationAngle))
                      verticalValue ==
                          ClampUnit(TDiv(ValueScale * deltaBeta, maxRotationAngle))
                  IN  ApplyNormalizedRotations(s1, horizontalValue, verticalValue)

\* setEnabled(enabled): the assignment under the condition
\* enabled && this.isIOS && !this.initialOrientation sets a null field to null
SetEnabled(s, enabled) ==
    LET s1 == [s EXCEPT !.enabled = enabled]
    IN  IF enabled /\ isIOS /\ s1.initialOrientation.null
        THEN [s1 EXCEPT !.initialOrientation = NoOrientation]
        ELSE s1

\* createPermissionOverlay(), the page having a #panel-overlay
CreatePermissionOverlay(s) ==
    [s EXCEPT !.overlayVisible = TRUE, !.clickListeners = @ + 1]

\* mutant of InitOrientationHandler: the existing handler is not removed
InitOrientationHandlerKeepsOld(s) ==
    [s EXCEPT !.orientationHandler = TRUE,
              !.windowListeners = @ + 1,
              !.listeners = @ \cup {<<"window", "deviceorientation">>}]

\* initOrientationHandler(): the handler is a new closure on every call
InitOrientationHandler(s) ==
    [s EXCEPT !.orientationHandler = TRUE,
              !.removedHandler = s.orientationHandler,
              !.windowListeners = (IF s.orientationHandler THEN @ - 1 ELSE @) + 1,
              !.listeners = (@ \ {<<"window", "deviceorientation">>})
                                \cup {<<"window", "deviceorientation">>}]

\* testMotionData()
TestMotionData(s) ==
    [s EXCEPT !.motionDetected = FALSE,
              !.timers = (IF s.motionDetectionTimer # NoTimer THEN @ - 1 ELSE @) + 1,
              !.motionDetectionTimer = MotionDetectionDelay]

\* requestMotionPermission, the part that follows a grant
Granted(s) ==
    TestMotionData(InitOrientationHandler(
        [s EXCEPT !.storageGranted = TRUE,
                  !.hasMotionPermission = TRUE,
                  !.eventSinceGrant = FALSE]))

\* requestMotionPermission, the end: hide the overlay regardless of the outcome
HideOverlay(s) == [s EXCEPT !.overlayVisible = FALSE]

\* the callback of the motion detection timer
MotionDetectionTimeout(s) ==
    IF ~s.motionDetected
    THEN CreatePermissionOverlay([s EXCEPT !.storageGranted = FALSE,
                                           !.hasMotionPermission = FALSE])
    ELSE s

\* cleanup()
DriftCleanup(s) ==
    [s EXCEPT !.listeners =
                  (IF s.driftHandler THEN @ \ {<<"canvas", "pointermove">>} ELSE @)
                      \ (IF s.orientationHandler
                         THEN {<<"window", "deviceorientation">>} ELSE {}),
              !.windowListeners = IF s.orientationHandler THEN @ - 1 ELSE @,
              !.timers = IF s.motionDetectionTimer # NoTimer THEN @ - 1 ELSE @,
              !.driftHandler = FALSE,
              !.orientationHandler = FALSE,
              !.motionDetectionTimer = NoTimer]

\* a pointermove event on the canvas reaches _driftHandler
DriftPointerMove(pt) ==
    /\ <<"canvas", "pointermove">> \in dc.listeners
    /\ dc' = DriftHandler(DriftBegin(dc, "pointermove"), pt)
    /\ UNCHANGED <<zoomVars, rotVars, playerVars>>

\* a deviceorientation event on the window reaches _orientationHandler
DeviceOrientation(e) ==
    /\ <<"window", "deviceorientation">> \in dc.listeners
    /\ dc' = OrientationHandler(
                 [DriftBegin(dc, "deviceorientation") EXCEPT
                     !.event = e, !.eventSinceGrant = @ \/ ~e.null], e)
    /\ UNCHANGED <<zoomVars, rotVars, playerVars>>

\* the page calls setEnabled
DriftSetEnabled(enabled) ==
    /\ dc' = SetEnabled(DriftBegin(dc, "setEnabled"), enabled)
    /\ UNCHANGED <<zoomVars, rotVars, playerVars>>

\* the page calls createPermissionOverlay() on a handheld
ShowPermissionOverlay ==
    /\ isIOS
    /\ ~dc.overlayVisible /\ dc.clickListeners = 0 /\ dc.requests = 0
    /\ dc' = CreatePermissionOverlay(DriftBegin(dc, "createPermissionOverlay"))
    /\ UNCHANGED <<zoomVars, rotVars, playerVars>>

\* a click on the visible overlay (hidden, it has pointer-events: none): every
\* handleClick removes itself and requests the permission; without
\* DeviceOrientationEvent.requestPermission the grant follows at once
OverlayClick ==
    /\ dc.overlayVisible
    /\ dc.clickListeners > 0
    /\ LET s == [DriftBegin(dc, "click") EXCEPT !.clickListeners = 0]
       IN  dc' = IF s.needsRequest
                 THEN [s EXCEPT !.requests = @ + dc.clickListeners]
                 ELSE HideOverlay(Granted(s))
    /\ UNCHANGED <<zoomVars, rotVars, playerVars>>

\* DeviceOrientationEvent.requestPermission() answers, or throws
PermissionAnswer(answer) ==
    /\ dc.requests > 0
    /\ LET s == [DriftBegin(dc, "permission") EXCEPT !.requests = @ - 1,
                                                       !.answer = answer]
       IN  dc' = HideOverlay(IF answer = "granted" THEN Granted(s) ELSE s)
    /\ UNCHANGED <<zoomVars, rotVars, playerVars>>

\* the device is turned: window.orientation changes and an orientationchange event
\* is dispatched on the window, where the controller has registered no listener
OrientationChange(o) ==
    /\ o # dc.windowOrientation
    /\ dc' = [DriftBegin(dc, "orientationchange") EXCEPT !.windowOrientation = o]
    /\ UNCHANGED <<zoomVars, rotVars, playerVars>>

\* the motion detection timer fires
MotionDetectionTimerFires ==
    /\ dc.motionDetectionTimer = 0
    /\ dc' = MotionDetectionTimeout(
                 [DriftBegin(dc, "timeout") EXCEPT !.motionDetectionTimer = NoTimer,
                                                   !.timers = @ - 1])
    /\ UNCHANGED <<zoomVars, rotVars, playerVars>>

\* MotionDetectionDelay / TicksPerDetection milliseconds pass
DriftTick ==
    /\ dc.motionDetectionTimer > 0
    /\ dc' = [DriftBegin(dc, "tick") EXCEPT
                !.motionDetectionTimer =
                    Max(@ - MotionDetectionDelay \div TicksPerDetection, 0)]
    /\ UNCHANGED <<zoomVars, rotVars, playerVars>>

(***************************************************************************)
(* GemPlayer: the fade-in of a scene load                                  *)
(***************************************************************************)
\* new ViewState({ x: 0, y: 0, z: DESKTOP_POSITION }, ...)
InitialCameraPosition == Vec(0, 0, desktopPosition * PosScale)

\* a pending safety timer: the load it was started for, and the milliseconds left
SafetyTimer(load) == [load |-> load, left |-> FADE_IN_DELAY]

\* the element after connectedCallback(): init() has created the canvas and the
\* scene runtime and awaits the first load, and the safety timer runs
GemPlayerConnected ==
    [load |-> 1,                       \* scene loads begun so far
     controls |-> FALSE,               \* zoomControl, driftControl, rotationControl
                                       \* are not null
     safetyTimerComplete |-> FALSE,
     sceneStarted |-> FALSE,
     loaded |-> FALSE,                 \* the canvas has the class 'loaded'
     timers |-> {SafetyTimer(1)},      \* safety timers pending
     starts |-> {1},                   \* loads whose 'start' event is still to come
     resolves |-> {1},                 \* loads whose spline.load() is awaited
     \* what the last step did
     op |-> "connected",
     events |-> <<>>,                  \* custom events it dispatched on the element
     \* history
     elapsed |-> {},                   \* loads whose safety timer has run out
     dispatches |-> 0]                 \* sceneloaded events since the latest load began

\* the element with its first scene loaded and faded in, the controls constructed
GemPlayerLoaded ==
    [GemPlayerConnected EXCEPT !.controls = TRUE,
                               !.safetyTimerComplete = TRUE,
                               !.sceneStarted = TRUE,
                               !.loaded = TRUE,
                               !.timers = {},
                               !.starts = {},
                               !.resolves = {},
                               !.op = "loaded",
                               !.elapsed = {1},
                               !.dispatches = 1]

\* the start of a callback of the element
PlayerBegin(g, op) == [g EXCEPT !.op = op, !.events = <<>>]

\* checkFadeInConditions(), the canvas existing
CheckFadeInConditions(g) ==
    IF g.safetyTimerComplete /\ g.sceneStarted /\ ~g.loaded
    THEN [g EXCEPT !.loaded = TRUE,
                   !.events = Append(@, "sceneloaded"),
                   !.dispatches = @ + 1]
    ELSE g

\* the callback of a safety timer
SafetyTimeout(g) == CheckFadeInConditions([g EXCEPT !.safetyTimerComplete = TRUE])

\* the listener of the 'start' event of the scene runtime
StartListener(g) ==
    CheckFadeInConditions([g EXCEPT !.events = Append(@, "scenestart"),
                                    !.sceneStarted = TRUE])

\* attributeChangedCallback('url', oldValue, newValue) with a new value, and
\* loadScene(newValue) up to its await
LoadScene(g) ==
    [g EXCEPT !.load = @ + 1,
              !.loaded = FALSE,
              !.safetyTimerComplete = FALSE,
              !.sceneStarted = FALSE,
              !.controls = FALSE,
              !.timers = @ \cup {SafetyTimer(g.load + 1)},
              !.starts = @ \cup {g.load + 1},
              !.resolves = @ \cup {g.load + 1},
              !.dispatches = 0]

\* initControls(): the three controls are constructed anew
InitControls ==
    /\ zoomVM' = TRUE
    /\ zoomListeners' = {"resize", "wheel"} \cup (IF isIOS THEN {"gesturechange"} ELSE {})
    /\ zoomLevel' = 0
    /\ sinceWheel' = debounceDelay
    /\ debounceTimer' = NoTimer
    /\ camCurrent' = InitialCameraPosition
    /\ camTarget' = ApplyPosition(InitialCameraPosition, innerWidth)
    /\ zEv' = [op |-> "init", ok |-> TRUE, d |-> 0, prev |-> 0]
    /\ dc' = DriftControlNew(Pos(ZoomDistance(innerWidth, 0), <<0, 0, 1>>, 1), 0, TRUE)
    /\ rc' = RotationControlNew
    /\ UNCHANGED <<isIOS, innerWidth, down, moves, sessions>>

\* GemPlayer.cleanup(): the controls that exist are cleaned up and dropped
CleanupControls ==
    IF gp.controls
    THEN /\ zoomListeners' = {}
         /\ debounceTimer' = NoTimer
         /\ zoomVM' = FALSE
         /\ zEv' = ZEvent("cleanup", TRUE, 0)
         /\ dc' = [DriftCleanup(DriftBegin(dc, "cleanup")) EXCEPT !.cleaned = TRUE]
         /\ rc' = [Cleanup(Begin(rc, "cleanup")) EXCEPT !.cleaned = TRUE]
         /\ UNCHANGED <<isIOS, innerWidth, camTarget, camCurrent, zoomLevel, sinceWheel,
                        down, moves, sessions>>
    ELSE UNCHANGED <<zoomVars, rotVars, driftVars>>

\* the url attribute of the connected element is set to a new value
UrlChange ==
    /\ gp.load < MaxLoads
    /\ gp' = LoadScene(PlayerBegin(gp, "url"))
    /\ CleanupControls

\* the safety timer t runs out; timers that run out together fire in the order
\* they were set
SafetyTimerFires(t) ==
    /\ t \in gp.timers /\ t.left = 0
    /\ \A u \in gp.timers : u.left = 0 => u.load >= t.load
    /\ gp' = SafetyTimeout([PlayerBegin(gp, "timer") EXCEPT !.timers = @ \ {t},
                                                           !.elapsed = @ \cup {t.load}])
    /\ UNCHANGED <<zoomVars, rotVars, driftVars>>

\* the scene runtime dispatches 'start' for the load k; whether it still does so
\* for a load that a later one has overtaken is up to the runtime
SplineStart(k) ==
    /\ k \in gp.starts
    /\ gp' = StartListener([PlayerBegin(gp, "start") EXCEPT !.starts = @ \ {k}])
    /\ UNCHANGED <<zoomVars, rotVars, driftVars>>

\* spline.load() of the load k resolves: init() or loadScene() goes on to create
\* the ViewModels and the controls
LoadResolves(k) ==
    /\ k \in gp.resolves
    /\ gp' = [PlayerBegin(gp, "resolved") EXCEPT !.resolves = @ \ {k}, !.controls = TRUE]
    /\ InitControls

\* FADE_IN_DELAY / TicksPerFade milliseconds pass, no timer being due
PlayerTick ==
    /\ gp.timers # {}
    /\ \A t \in gp.timers : t.left > 0
    /\ gp' = [PlayerBegin(gp, "tick") EXCEPT
                !.timers = {[t EXCEPT !.left = Max(@ - FADE_IN_DELAY \div TicksPerFade, 0)] :
                               t \in @}]
    /\ UNCHANGED <<zoomVars, rotVars, driftVars>>

(***************************************************************************)
(* The state after construction                                            *)
(***************************************************************************)
\* the player of the controls in service: its scene is loaded
PlayerLoaded == gp = GemPlayerLoaded

\* the player before its first scene is loaded
PlayerConnected == gp = GemPlayerConnected

RotConstructed ==
    /\ rc = RotationControlNew
    /\ down = {}
    /\ moves = 0
    /\ sessions = 0

ZoomConstructed ==
    /\ isIOS \in BOOLEAN
    /\ innerWidth \in Widths
    /\ camCurrent = InitialCameraPosition
    \* the constructor ends with this.apply()
    /\ camTarget = ApplyPosition(InitialCameraPosition, innerWidth)
    /\ zoomVM = TRUE
    /\ zoomListeners = {"resize", "wheel"} \cup (IF isIOS THEN {"gesturechange"} ELSE {})
    /\ zoomLevel = 0
    \* this.lastWheelTime = 0, and Date.now() is far above debounceDelay
    /\ sinceWheel = debounceDelay
    /\ debounceTimer = NoTimer
    /\ zEv = [op |-> "init", ok |-> TRUE, d |-> 0, prev |-> 0]

\* DriftControl as constructed by GemPlayer, the camera at the base distance
DriftConstructed ==
    dc = DriftControlNew(Pos(ZoomDistance(innerWidth, 0), <<0, 0, 1>>, 1), 0, TRUE)

ZoomInit == ZoomConstructed /\ RotConstructed /\ DriftConstructed /\ PlayerLoaded

ZoomNext ==
    \/ \E deltaY \in WheelDeltas : Wheel(deltaY)
    \/ \E s \in GestureScales : Gesture(s)
    \/ \E w \in Widths : Resize(w)
    \/ ResizeTimerFires
    \/ ZoomCleanup
    \/ Tick
    \/ CameraFrame
    \/ \E d \in Directions : CameraOrbit(d)

ZoomSpec == ZoomInit /\ [][ZoomNext]_vars

\* RotationControl on a desktop-wide window
RotInit ==
    ZoomConstructed /\ innerWidth = 1280 /\ RotConstructed /\ DriftConstructed /\ PlayerLoaded

RotNext ==
    \/ \E id \in PointerIds, pt \in Points : PointerDown(id, pt)
    \/ \E id \in PointerIds, pt \in Points : PointerMove(id, pt)
    \/ \E id \in PointerIds : PointerUp(id)
    \/ \E id \in PointerIds : PointerLeave(id)
    \/ \E f \in rc.frames : Frame(f)
    \/ AutoRotateTimerFires
    \/ RotTick

RotSpec == RotInit /\ [][RotNext]_vars

\* GemPlayer.cleanup() calls rotationControl.cleanup(); the canvas stays
RotCleanup ==
    /\ rc' = [Cleanup(Begin(rc, "cleanup")) EXCEPT !.cleaned = TRUE]
    /\ UNCHANGED <<down, moves, sessions>>
    /\ UNCHANGED <<zoomVars, driftVars, playerVars>>

RotTeardownNext == RotNext \/ RotCleanup

\* RotationControl on a desktop
RotTeardownInit == RotInit /\ ~isIOS

\* RotationControl up to and after its cleanup
RotTeardownSpec == RotTeardownInit /\ [][RotTeardownNext]_vars

\* DriftControl on a camera at one of the zoom distances
DriftInit ==
    /\ ZoomConstructed /\ innerWidth = 1280 /\ RotConstructed /\ PlayerLoaded
    /\ \E level \in 0..MaxZoomLevel, o \in ScreenOrientations, needsRequest \in BOOLEAN :
          dc = DriftControlNew(Pos(ZoomDistance(innerWidth, level), <<0, 0, 1>>, 1),
                               o, needsRequest)

DriftNext ==
    \/ \E pt \in HoverPoints : DriftPointerMove(pt)
    \/ \E e \in OrientationSamples : DeviceOrientation(e)
    \/ \E enabled \in BOOLEAN : DriftSetEnabled(enabled)
    \/ ShowPermissionOverlay
    \/ OverlayClick
    \/ \E answer \in {"granted", "denied", "error"} : PermissionAnswer(answer)
    \/ MotionDetectionTimerFires
    \/ DriftTick

DriftSpec == DriftInit /\ [][DriftNext]_vars

\* GemPlayer.cleanup() calls cleanup() of the DriftControl; callbacks of the
\* instance that are still registered keep running
DriftTeardown ==
    /\ dc' = [DriftCleanup(DriftBegin(dc, "cleanup")) EXCEPT !.cleaned = TRUE]
    /\ UNCHANGED <<zoomVars, rotVars, playerVars>>

DriftTeardownNext == DriftNext \/ DriftTeardown

\* DriftControl up to and after its cleanup
DriftTeardownSpec == DriftInit /\ [][DriftTeardownNext]_vars

TurnedNext == DriftNext \/ \E o \in WindowOrientations : OrientationChange(o)

\* DriftControl as GemPlayer constructs it, on a device that is turned while
\* the controller lives
TurnedSpec == RotInit /\ [][TurnedNext]_vars

\* RotationControl writes the gem's ViewModel and DriftControl the camera's: they
\* share no state, so the controller that receives the first event is followed
\* alone, RotationControl beside the DriftControl that GemPlayer constructs.
ApartNext ==
    \/ rc.op = "new" /\ DriftNext
    \/ DriftConstructed /\ RotNext

\* DriftControl and RotationControl of one player, each on its own ViewModel
ApartSpec == DriftInit /\ [][ApartNext]_vars

\* yaws the gem can rest at after a drag: the eighths of a half turn and their
\* neighbours, the odd quarter turns among them
Yaws == {k * (PI \div 8) + e : k \in -MaxEighths..MaxEighths, e \in {-1, 0, 1}}

\* RotationControl at rest at the yaw y after a drag, the auto-rotate timer armed
RestingAt(y) ==
    [RotationControlNew EXCEPT !.currentRotation = Rot(0, y),
                               !.targetRotation = Rot(0, y),
                               !.gemRotation = Rot(0, y),
                               !.hasManualRotation = TRUE,
                               !.autoRotateTimer = AUTO_ROTATE_DELAY,
                               !.op = "momentum",
                               !.rested = TRUE]

CardinalInit ==
    /\ ZoomConstructed /\ innerWidth = 1280 /\ DriftConstructed /\ PlayerLoaded
    /\ down = {} /\ moves = 0 /\ sessions = 0
    /\ \E y \in Yaws : rc = RestingAt(y)

\* the gem is left alone: the timer runs out and the auto-rotation plays
CardinalNext ==
    \/ RotTick
    \/ AutoRotateTimerFires
    \/ \E f \in rc.frames : Frame(f)

\* the auto-rotation from every resting yaw
CardinalSpec == CardinalInit /\ [][CardinalNext]_vars

\* GemPlayer from connectedCallback on, the controls not yet constructed
PlayerInit == ZoomConstructed /\ RotConstructed /\ DriftConstructed /\ PlayerConnected

PlayerNext ==
    \/ UrlChange
    \/ \E t \in gp.timers : SafetyTimerFires(t)
    \/ \E k \in gp.starts : SplineStart(k)
    \/ \E k \in gp.resolves : LoadResolves(k)
    \/ PlayerTick

PlayerSpec == PlayerInit /\ [][PlayerNext]_vars

\* One of the three controllers is constructed before the scene is loaded, with
\* null for its ViewModel.
UnboundInit ==
    /\ PlayerConnected
    /\ isIOS \in BOOLEAN
    /\ camCurrent = InitialCameraPosition
    /\ camTarget = InitialCameraPosition
    /\ zoomListeners = {"resize", "wheel"} \cup (IF isIOS THEN {"gesturechange"} ELSE {})
    /\ zoomLevel = 0
    /\ sinceWheel = debounceDelay
    /\ debounceTimer = NoTimer
    /\ zEv = [op |-> "init", ok |-> TRUE, d |-> 0, prev |-> 0]
    /\ down = {} /\ moves = 0 /\ sessions = 0
    /\ \E unbound \in {"zoom", "rotation", "drift"} :
          /\ innerWidth \in (IF unbound = "zoom" THEN Widths ELSE {1280})
          /\ zoomVM = (unbound # "zoom")
          /\ rc = [RotationControlNew EXCEPT !.gemViewModel = (unbound # "rotation")]
          /\ \E o \in ScreenOrientations, needsRequest \in BOOLEAN :
                dc = [DriftControlNew(Pos(ZoomDistance(innerWidth, 0), <<0, 0, 1>>, 1),
                                      IF unbound = "drift" THEN o ELSE 0,
                                      IF unbound = "drift" THEN needsRequest ELSE TRUE)
                        EXCEPT !.cameraViewModel = (unbound # "drift")]

\* the events, callbacks and operations of the controller that has no ViewModel
UnboundNext ==
    \/ \E deltaY \in WheelDeltas : ~zoomVM /\ Wheel(deltaY)
    \/ \E sc \in GestureScales : ~zoomVM /\ Gesture(sc)
    \/ \E w \in Widths : ~zoomVM /\ Resize(w)
    \/ ~zoomVM /\ ResizeTimerFires
    \/ ~zoomVM /\ Tick
    \/ \E d \in {-1, 1} : ~zoomVM /\ HandleZoomCall(d)
    \/ ~rc.gemViewModel /\ RotNext
    \/ ~dc.cameraViewModel /\ DriftNext

UnboundSpec == UnboundInit /\ [][UnboundNext]_vars

\* A camera at the origin: either a ZoomControl is constructed on a camera whose
\* eased position is (0, 0, 0), or a DriftControl is used without a ZoomControl
\* on a camera whose position is (0, 0, 0).
OriginInit ==
    /\ PlayerLoaded
    /\ isIOS \in BOOLEAN
    /\ innerWidth \in Widths
    /\ zoomLevel = 0
    /\ sinceWheel = debounceDelay
    /\ debounceTimer = NoTimer
    /\ zEv = [op |-> "init", ok |-> TRUE, d |-> 0, prev |-> 0]
    /\ RotConstructed
    /\ camCurrent = Vec(0, 0, 0)
    /\ \/ /\ zoomVM = TRUE
          /\ zoomListeners =
                {"resize", "wheel"} \cup (IF isIOS THEN {"gesturechange"} ELSE {})
          \* the constructor ends with this.apply()
          /\ camTarget = ApplyPosition(camCurrent, innerWidth)
          /\ DriftConstructed
       \/ /\ zoomVM = FALSE
          /\ zoomListeners = {}
          /\ camTarget = Vec(0, 0, 0)
          /\ \E o \in ScreenOrientations, needsRequest \in BOOLEAN :
                dc = DriftControlNew(Pos(0, <<0, 0, 1>>, 1), o, needsRequest)

OriginNext ==
    \/ \E deltaY \in WheelDeltas : zoomVM /\ Wheel(deltaY)
    \/ \E sc \in GestureScales : zoomVM /\ Gesture(sc)
    \/ \E w \in Widths : zoomVM /\ Resize(w)
    \/ zoomVM /\ ResizeTimerFires
    \/ zoomVM /\ Tick
    \/ zoomVM /\ CameraFrame
    \/ ~zoomVM /\ DriftNext

OriginSpec == OriginInit /\ [][OriginNext]_vars

(***************************************************************************)
(* Properties of ZoomControl                                               *)
(***************************************************************************)
ZGesture == zEv.op \in {"wheel", "gesture"}
ZAccepted == ZGesture /\ zEv.ok

\* the distance the level and the breakpoint call for: dist = base * ratio^level,
\* stated without division
AtLevelDistance(p, width, level) ==
    /\ ~p.nan
    /\ Norm(p) * Pow(MaxZoomDen, level) =
         (IF width < mobileWidth THEN mobilePosition ELSE desktopPosition)
           * PosScale * Pow(MaxZoomNum, level)

\* C1 as stated: zoomLevel is in {0,1,2} and every accepted gesture (one that
\* passes the magnitude and debounce filters) changes it by exactly one step.
C1_ExactlyOneStep ==
    /\ zoomLevel \in {0, 1, 2}
    /\ ZAccepted => Abs(zoomLevel - zEv.prev) = 1

\* C1 amended: zoomLevel is in {0,1,2}; an accepted gesture changes it by one
\* step, except at the boundary in the gesture's direction (level 0 or 2), where
\* it leaves the level unchanged; a gesture that is filtered out changes nothing.
C1_AtMostOneStep ==
    /\ zoomLevel \in {0, 1, 2}
    /\ ZAccepted => \/ Abs(zoomLevel - zEv.prev) = 1
                    \/ zoomLevel = zEv.prev /\ zEv.prev \in {0, MaxZoomLevel}
    /\ ZGesture /\ ~zEv.ok => zoomLevel = zEv.prev

C1_Witness == ZAccepted /\ zEv.prev = 1 /\ zoomLevel = 2

\* C2: an accepted wheel gesture with deltaY < 0 raises zoomLevel by 1 unless it
\* is 2, and one with deltaY > 0 lowers it by 1 unless it is 0.
C2_NegativeDeltaZoomsIn ==
    zEv.op = "wheel" /\ zEv.ok =>
        /\ zEv.d < 0 => zoomLevel = (IF zEv.prev = MaxZoomLevel THEN zEv.prev ELSE zEv.prev + 1)
        /\ zEv.d > 0 => zoomLevel = (IF zEv.prev = 0 THEN zEv.prev ELSE zEv.prev - 1)

\* C3: after every accepted level change the camera target written by handleZoom
\* is at distance base * maxZoom^level from the origin, base chosen by the
\* breakpoint; so the transitions 0 -> 1 -> 2 -> 1 end at distance base * ratio.
C3_DistanceAfterLevelChange ==
    ZAccepted /\ zoomLevel # zEv.prev => AtLevelDistance(camTarget, innerWidth, zoomLevel)

\* a step 2 -> 1 (which only the transitions 0 -> 1 -> 2 -> 1 lead to) from a
\* camera off the z axis
C3_Witness ==
    /\ ZAccepted /\ zEv.prev = 2 /\ zoomLevel = 1
    /\ camTarget.x # 0
    /\ Norm(camTarget) * MaxZoomDen = BaseDistance(innerWidth) * MaxZoomNum

\* C4: when the debounced resize handler runs at level L, the target distance it
\* writes is base(new breakpoint) * maxZoom^L.
C4_ResizeKeepsLevelDistance ==
    zEv.op = "apply" /\ zEv.ok => AtLevelDistance(camTarget, innerWidth, zoomLevel)

\* C5: resize events and the debounced apply() leave zoomLevel unchanged.
C5_ResizeKeepsLevel ==
    zEv.op \in {"resize", "apply"} => zoomLevel = zEv.prev

C5_Witness == zEv.op = "apply" /\ zEv.ok /\ zoomLevel = 2 /\ camTarget # camCurrent

\* C6: a gesture less than debounceDelay after the previous accepted gesture
\* changes neither zoomLevel nor the camera target: every step that changes the
\* level, and every gesture step that changes the target, happens at least
\* debounceDelay after the previous accepted gesture and restarts the interval.
C6_Debounce ==
    [][(zoomLevel' # zoomLevel \/ (camTarget' # camTarget /\ zEv'.op \in {"wheel", "gesture"}))
        => sinceWheel >= debounceDelay /\ sinceWheel' = 0]_vars

\* a gesture above the magnitude threshold, rejected by the debounce filter
C6_Witness ==
    /\ zEv.op = "wheel" /\ ~zEv.ok /\ Abs(zEv.d) >= minWheelThreshold
    /\ zoomVM /\ ~isIOS /\ sinceWheel < debounceDelay
    /\ zEv.prev = 1

(***************************************************************************)
(* RotationControl: claims                                                 *)
(***************************************************************************)
\* the last step dispatched the custom event name on the canvas
Dispatched(name) == \E i \in DOMAIN rc.events : rc.events[i][1] = name

\* C7: on a touch platform a pointer-down during a drag session ends the session
\* (isDragging becomes false), and from then on no pointer-move changes
\* targetRotation until a pointer-down starts a fresh session.
C7_SecondPointerCancels ==
    [][/\ (isIOS /\ rc.isDragging /\ rc'.op = "pointerdown")
            => (~rc'.isDragging /\ rc'.multiCancelled)
       /\ (rc.multiCancelled /\ rc'.op = "pointermove")
            => (~rc'.isDragging /\ rc'.targetRotation = rc.targetRotation)]_vars

\* both pointers still down after the cancel, a pointer-move just ignored, the
\* target still what the drag had accumulated
C7_Witness ==
    /\ isIOS /\ rc.multiCancelled /\ rc.op = "pointermove"
    /\ down = PointerIds
    /\ rc.targetRotation.y # 0

\* C8: targetRotation.x is always within the vertical limit in radians, and an
\* accepted pointer-move adds the horizontal movement times the sensitivity to
\* targetRotation.y with no clamp.
C8_PitchClampedYawFree ==
    /\ [](Abs(rc.targetRotation.x) <= VerticalLimitRadians)
    /\ [][(rc'.op = "pointermove" /\ rc.isDragging /\ rc'.isDragging)
            => rc'.targetRotation.y = rc.targetRotation.y
                 + DeltaAngle(rc'.previousMousePosition[1] - rc.previousMousePosition[1])]_vars

\* a pointer-move that hit the vertical limit and took the yaw beyond it
C8_Witness ==
    /\ rc.op = "pointermove" /\ rc.isDragging
    /\ Abs(rc.targetRotation.x) = VerticalLimitRadians
    /\ Abs(rc.targetRotation.y) > VerticalLimitRadians

\* C9: when the easing loop has come to rest, current is equal to target on both
\* axes.
C9_RestPinsCurrentToTarget ==
    rc.rested => rc.currentRotation = rc.targetRotation

\* C10: when autorotationcomplete is dispatched, currentRotation and
\* targetRotation both have a yaw that is an integer multiple of 180 degrees and
\* a pitch of 0.
C10_AutoRotationLandsOnCardinal ==
    Dispatched("autorotationcomplete") =>
        /\ rc.currentRotation.x = 0 /\ rc.targetRotation.x = 0
        /\ rc.currentRotation.y = rc.targetRotation.y
        /\ rc.currentRotation.y % PI = 0

\* a completed auto-rotation that started off the cardinal it lands on, with a
\* pitch, and lands on an odd multiple of 180 degrees
C10_Witness ==
    /\ Dispatched("autorotationcomplete")
    /\ rc.currentRotation.y # 0
    /\ rc.gemRotation.x = 0 /\ rc.gemRotation.y = rc.currentRotation.y

\* the step armed the auto-rotate delay timer
TimerArmed == rc'.autoRotateTimer > rc.autoRotateTimer

\* C11: the auto-rotate timer is armed only when the momentum animation has come
\* to rest after a drag session in which a pointer-move was accepted; a session
\* without movement arms no timer.
C11_ArmedOnlyAfterMovedSession ==
    [][TimerArmed => (rc'.rested /\ rc'.sessionMoved)]_vars

\* C11 amended: the timer is armed, to the full delay, only when the momentum
\* animation has come to rest while hasManualRotation is set, that is after a
\* pointer-move accepted since construction or since the last completed
\* auto-rotation, in the latest session or an earlier one; a pending timer only
\* counts down or is cleared; and auto-rotation starts only when the timer has
\* run the full delay.
C11_ArmedOnlyAfterManualRotation ==
    [][/\ TimerArmed => /\ rc'.rested /\ rc'.hasManualRotation
                        /\ rc'.autoRotateTimer = AUTO_ROTATE_DELAY
       /\ (rc'.autoRotateTimer < rc.autoRotateTimer)
            => \/ rc'.autoRotateTimer = NoTimer
               \/ rc'.op = "tick" /\ rc'.autoRotateTimer = Max(rc.autoRotateTimer - RotTickMs, 0)
       /\ (rc'.isAutoRotating /\ ~rc.isAutoRotating)
            => (rc'.op = "timer" /\ rc.autoRotateTimer = 0)
       /\ (~rc.hasManualRotation /\ rc'.hasManualRotation) => rc'.op = "pointermove"]_vars

\* the timer, armed after a session without movement, has run out and started an
\* auto-rotation
C11_Witness ==
    rc.op = "timer" /\ rc.isAutoRotating /\ ~rc.sessionMoved /\ rc.hasManualRotation

\* C12: after a pointerdown event during an auto-rotation, no later frame of that
\* auto-rotation writes currentRotation, targetRotation or the gem rotation.
C12_PointerDownAbortsAutoRotation == ~rc.staleWrite

\* C13: when an auto-rotation completes, hasManualRotation is false and no
\* auto-rotate timer is pending, so that auto-rotation cannot start again
\* before a new manual rotation.
C13_CompletionDoesNotRearm ==
    Dispatched("autorotationcomplete") =>
        (~rc.hasManualRotation /\ rc.autoRotateTimer = NoTimer)

\* C14: in every reachable state at most one animation-frame callback of the
\* controller is pending, counted across the drag, momentum and auto-rotation
\* loops.
C14_AtMostOnePendingFrame == Cardinality(rc.frames) <= 1

\* C15: after cleanup() no animation-frame callback and no auto-rotate timer of
\* the instance is pending, the pointer-id set is empty and no callback of the
\* instance writes the gem rotation.
C15_CleanupStopsTheInstance ==
    /\ [](rc.cleaned =>
           /\ rc.frames = {}
           /\ rc.autoRotateTimer = NoTimer
           /\ rc.activePointers = {})
    /\ [][rc.cleaned => rc'.gemRotation = rc.gemRotation]_vars

\* C16: after cleanup() no listener registered by the instance is left on the
\* canvas, so that events delivered after cleanup reach no handler of it.
C16_CleanupRemovesListeners == rc.cleaned => rc.listeners = {}

\* C17: whenever DriftControl writes the camera position, the new position lies
\* on the sphere around the origin whose radius is the distance of the position
\* before the update: its direction has length 1 and its distance is unchanged.
C17_DriftKeepsDistance ==
    [][dc'.applied => /\ SumSq(dc'.position.n) = dc'.position.d * dc'.position.d
                      /\ dc'.position.r = Radius(dc.position)
                      /\ Radius(dc'.position) = Radius(dc.position)]_vars

\* C17 witness: a pointer hover off both axes has moved the camera, zoomed in
C17_Witness ==
    /\ dc.op = "pointermove" /\ dc.applied
    /\ dc.position.n[1] # 0 /\ dc.position.n[2] # 0
    /\ dc.position.r = ZoomDistance(innerWidth, MaxZoomLevel)

\* an event has just been delivered to a handler of DriftControl
DriftEvent == dc'.op \in {"pointermove", "deviceorientation"}

\* C18: while DriftControl is disabled, no pointer-move or orientation event
\* changes the camera position or rotation; setEnabled leaves the listeners
\* registered, and a pointer move delivered while enabled moves the camera.
C18_DisabledFreezesCamera ==
    /\ [][(~dc.enabled /\ DriftEvent) =>
             /\ dc'.position = dc.position /\ dc'.rotation = dc.rotation
             /\ ~dc'.applied]_vars
    /\ [][dc'.op = "setEnabled" => dc'.listeners = dc.listeners]_vars
    /\ [][(dc.enabled /\ dc'.op = "pointermove") => dc'.applied]_vars

\* C18 witness: an orientation event away from the reference is delivered to the
\* disabled controller, the camera being off its initial direction
C18_Witness ==
    /\ dc.op = "deviceorientation" /\ ~dc.enabled
    /\ ~dc.initialOrientation.null
    /\ dc.position.n # <<0, 0, 1>>

\* C19: on the orientation branch, setEnabled(true) after setEnabled(false)
\* clears the reference orientation, whatever reference had been captured, so
\* that the first orientation sample after it becomes the reference and does not
\* move the camera.
C19_ReenableClearsReference ==
    [][(isIOS /\ dc'.op = "setEnabled" /\ ~dc.enabled /\ dc'.enabled) =>
         dc'.initialOrientation.null]_vars

\* C20: when the motion detection timer fires after a grant and no orientation
\* event has been received since the grant, the persisted grant is cleared,
\* hasMotionPermission becomes false and the overlay is shown; when at least one
\* orientation event has been received, the grant is kept and the overlay is not
\* shown again. An event counts as received if it carries beta and gamma.
C20_LivenessTimer ==
    [][dc'.op = "timeout" =>
         IF dc.eventSinceGrant
         THEN /\ dc'.storageGranted = dc.storageGranted
              /\ dc'.hasMotionPermission
              /\ dc'.overlayVisible = dc.overlayVisible
              /\ dc'.clickListeners = dc.clickListeners
         ELSE /\ ~dc'.storageGranted
              /\ ~dc'.hasMotionPermission
              /\ dc'.overlayVisible]_vars

\* a callback of the DriftControl instance has just run: an event handler, the
\* continuation of a permission request or the timer callback
DriftCallback == dc'.op \in {"pointermove", "deviceorientation", "click", "permission", "timeout"}

\* C21: cleanup() releases every listener and timer of the instance (pointer
\* move, orientation, overlay click handler, motion detection timer) and hides a
\* visible overlay, also while a permission request is pending; a second call
\* changes nothing; after cleanup no callback of the instance registers a
\* listener, arms a timer, shows the overlay or writes the camera.
C21_CleanupReleasesEverything ==
    /\ []((dc.op = "cleanup") =>
            /\ dc.listeners = {} /\ dc.clickListeners = 0
            /\ dc.motionDetectionTimer = NoTimer
            /\ ~dc.overlayVisible)
    /\ [][(dc.cleaned /\ dc'.op = "cleanup") =>
             [dc' EXCEPT !.op = dc.op, !.applied = dc.applied,
                         !.event = dc.event, !.answer = dc.answer] = dc]_vars
    /\ [][(dc.cleaned /\ DriftCallback) =>
             /\ dc'.listeners \subseteq dc.listeners
             /\ dc'.clickListeners <= dc.clickListeners
             /\ dc'.motionDetectionTimer = NoTimer
             /\ dc'.overlayVisible => dc.overlayVisible
             /\ ~dc'.applied]_vars

\* C22: a DriftControl has one input source, fixed by the platform: on a handheld
\* no pointer-move event moves the camera, elsewhere no orientation event does,
\* and a pointer-move handler and an orientation handler of the instance are
\* never registered together.
C22_OneInputSource ==
    /\ (isIOS /\ dc.op = "pointermove") => ~dc.applied
    /\ (~isIOS /\ dc.op = "deviceorientation") => ~dc.applied
    /\ ~({<<"canvas", "pointermove">>, <<"window", "deviceorientation">>}
            \subseteq dc.listeners)

\* C23: while a controller has no ViewModel (null at construction or after
\* cleanup), none of its events, callbacks and operations throws and none writes
\* a position or rotation to a ViewModel.
C23_NoViewModelNoEffect ==
    /\ [](zEv.op # "TypeError")
    /\ [][~zoomVM => camTarget' = camTarget]_vars
    /\ [][~rc.gemViewModel => rc'.gemRotation = rc.gemRotation]_vars
    /\ [][~dc.cameraViewModel =>
             /\ dc'.position = dc.position /\ dc'.rotation = dc.rotation
             /\ ~dc'.applied]_vars

\* C24: with the camera at distance 0 from the origin, ZoomControl (apply,
\* handleZoom) and DriftControl (applyNormalizedRotations) write a default
\* instead of dividing by zero: no position and no rotation written to the
\* camera ViewModel is NaN.
C24_NoNaNWritten == ~camTarget.nan /\ ~dc.rotation.nan

\* handlePointerMove has just added a pointer movement to the target rotation
MoveAccepted == rc'.op = "pointermove" /\ moves' = moves + 1 /\ rc'.isDragging

\* the horizontal pointer movement of that step, in px
MoveDx == rc'.previousMousePosition[1] - rc.previousMousePosition[1]

\* C25 as stated: each pointer-move of a drag session adds dx * sensitivity *
\* 0.01 rad to targetRotation.y, sensitivity being the configured value 1.0 on
\* every platform: 100 px raise the target yaw by 1.0 rad.
C25_YawPerPixelAsConfigured ==
    [][MoveAccepted =>
         rc'.targetRotation.y - rc.targetRotation.y =
             (MoveDx * SensitivityPct * AngleScale) \div (100 * 100)]_vars

\* C25 amended: the factor is the configured sensitivity times 1.22 on a handheld
\* and the configured sensitivity elsewhere; targetRotation.y minus the factor
\* times the pointer's x is left unchanged by every move, so the yaw added by a
\* movement does not depend on how it is split into events.
C25_YawPerPixelByPlatform ==
    [][MoveAccepted =>
         LET pct == IF isIOS THEN SensitivityPctIOS ELSE SensitivityPct
             k == (pct * AngleScale) \div (100 * 100)
         IN  /\ rc'.targetRotation.y - rc.targetRotation.y = MoveDx * k
             /\ rc'.targetRotation.y - k * rc'.previousMousePosition[1] =
                  rc.targetRotation.y - k * rc.previousMousePosition[1]]_vars

\* C25 witness: a move of 200 px to the right on a handheld has raised the target
\* yaw by 2.44 rad
C25_Witness ==
    /\ isIOS /\ rc.op = "pointermove" /\ rc.sessionMoved
    /\ rc.previousMousePosition = <<200, 80>>
    /\ rc.targetRotation.y = (244 * AngleScale) \div 100

\* the hasManualRotation values of the rotationend events of the last step
RotationEndDetails ==
    {rc.events[i][2] : i \in {j \in DOMAIN rc.events : rc.events[j][1] = "rotationend"}}

\* C26 as stated: the hasManualRotation value of a rotationend event is true
\* exactly when a pointer-move changed the target rotation during the session
\* the event ends, whatever happened in earlier sessions.
C26_RotationEndReportsSession == RotationEndDetails \subseteq {rc.sessionMoved}

\* C26 amended: the value is the hasManualRotation field, which every accepted
\* pointer-move sets, which nothing else sets, and which is cleared only by the
\* step that completes an auto-rotation (and by each such step); it is true
\* exactly when a pointer-move changed the target since construction or since
\* the latest completed auto-rotation.
C26_RotationEndReportsSinceAutoRotation ==
    /\ [](RotationEndDetails \subseteq {rc.hasManualRotation})
    /\ [][MoveAccepted => rc'.hasManualRotation]_vars
    /\ [][(rc'.hasManualRotation /\ ~rc.hasManualRotation) => MoveAccepted]_vars
    /\ [][(\E i \in DOMAIN rc'.events : rc'.events[i][1] = "autorotationcomplete")
             => ~rc'.hasManualRotation]_vars
    /\ [][(rc.hasManualRotation /\ ~rc'.hasManualRotation) =>
             \E i \in DOMAIN rc'.events : rc'.events[i][1] = "autorotationcomplete"]_vars

\* C26 witness: a session without pointer movement ends with a rotationend event
\* that reports true, an earlier session having moved
C26_Witness ==
    /\ rc.op = "pointerup" /\ ~rc.sessionMoved
    /\ RotationEndDetails = {TRUE}

\* C27: an orientation event whose beta or gamma is null is dropped: it changes
\* no field of the controller (reference orientation, motion-detected flag,
\* timer, listeners), writes nothing to the camera and does not count as a
\* received event.
C27_NullSampleDropped ==
    [][(dc'.op = "deviceorientation" /\ dc'.event.null) =>
         /\ [dc' EXCEPT !.op = dc.op, !.applied = dc.applied,
                        !.event = dc.event, !.answer = dc.answer,
                        !.removedHandler = dc.removedHandler] = dc
         /\ ~dc'.applied]_vars

\* C27 witness: a null sample reaches the enabled controller while the motion
\* detection timer is pending and a reference orientation is set
C27_Witness ==
    /\ dc.op = "deviceorientation" /\ dc.event.null /\ dc.enabled
    /\ dc.motionDetectionTimer # NoTimer /\ ~dc.motionDetected
    /\ ~dc.initialOrientation.null

\* C28: when the permission request is denied or throws, the persisted grant is
\* not set, no orientation listener and no motion detection timer is started,
\* and the overlay is shown again with its click handler, so that the user can
\* retry.
C28_DenialReshowsOverlay ==
    [][(dc'.op = "permission" /\ dc'.answer \in {"denied", "error"}) =>
         /\ dc'.storageGranted = dc.storageGranted
         /\ dc'.hasMotionPermission = dc.hasMotionPermission
         /\ dc'.listeners = dc.listeners
         /\ dc'.motionDetectionTimer = dc.motionDetectionTimer
         /\ dc'.overlayVisible /\ dc'.clickListeners > 0]_vars

\* C29: on a handheld that gates sensor access, without a persisted grant, the
\* overlay is visible once the DriftControl is constructed; a tap on the overlay
\* starts exactly one permission request; the orientation listener is registered
\* only by a grant.
C29_ConstructionShowsOverlay ==
    /\ []((dc.op = "new" /\ isIOS /\ dc.needsRequest /\ ~dc.storageGranted) =>
            (dc.overlayVisible /\ dc.clickListeners = 1))
    /\ [][(dc'.op = "click" /\ dc.needsRequest) => dc'.requests = dc.requests + 1]_vars
    /\ [][(<<"window", "deviceorientation">> \in dc'.listeners \ dc.listeners) =>
             \/ dc'.op = "permission" /\ dc'.answer = "granted"
             \/ dc'.op = "click" /\ ~dc.needsRequest]_vars

\* the enabled controller has just handled an orientation sample with readings
SampleHandled == dc'.op = "deviceorientation" /\ dc.enabled /\ ~dc'.event.null

\* C30: the first sample handled while no reference is set becomes the reference
\* and writes nothing to the camera; every later sample writes the camera and
\* leaves the reference as it is, and a sample equal to the reference puts the
\* camera at the centred position (0, 0, radius).
C30_FirstSampleIsReference ==
    /\ [][(SampleHandled /\ dc.initialOrientation.null) =>
             /\ dc'.initialOrientation = dc'.event
             /\ ~dc'.applied
             /\ dc'.position = dc.position /\ dc'.rotation = dc.rotation]_vars
    /\ [][(SampleHandled /\ ~dc.initialOrientation.null) =>
             /\ dc'.applied
             /\ dc'.initialOrientation = dc.initialOrientation
             /\ (dc'.event = dc.initialOrientation) =>
                   dc'.position = Pos(Radius(dc.position), <<0, 0, 1>>, 1)]_vars

\* C30 witness: a later sample that differs from the reference has moved the
\* camera off the centred position
C30_Witness ==
    /\ dc.op = "deviceorientation" /\ dc.applied
    /\ dc.event # dc.initialOrientation
    /\ dc.position.n # <<0, 0, 1>>

\* The position and rotation the orientation handler would write for the sample
\* e if it adjusted for the screen rotation o.
WrittenFor(o, e) ==
    LET s == OrientationHandler([dc EXCEPT !.screenOrientation = o], e)
    IN  <<s.position, s.rotation>>

\* C31: for every orientation sample that moves the camera, the axes are swapped
\* and negated for the screen rotation in effect at the time of the sample, also
\* after the screen has been turned since the construction.
C31_AxesFollowScreenRotation ==
    [][dc'.op = "deviceorientation" /\ dc'.applied
          => <<dc'.position, dc'.rotation>> = WrittenFor(dc.windowOrientation, dc'.event)]_vars

\* y of the camera position
PositionY(p) == MulDiv(p.r, p.n[2], p.d)

\* C32: every rotation written by DriftControl or RotationControl has roll 0, and
\* every camera write of the handheld branch has position y = 0 and pitch 0.
C32_NoRollAndLevelOnHandheld ==
    /\ rc.gemRotation.z = 0
    /\ dc.rotation.z = 0
    /\ isIOS /\ dc.applied => PositionY(dc.position) = 0 /\ dc.rotation.n[2] = 0

\* a tilt sample has moved the handheld camera sideways
C32_Witness ==
    /\ isIOS /\ dc.applied /\ dc.op = "deviceorientation"
    /\ dc.position.n[1] # 0 /\ dc.position.r > 0

AutoRotations == {f \in rc.frames : f.kind = "auto"}

\* C34: the auto-rotation target yaw is a multiple of a half turn and lies within
\* a quarter turn of the yaw the auto-rotation starts from, and no frame of the
\* auto-rotation leaves the span between the two.
C34_TargetIsNearestCardinal ==
    /\ \A f \in AutoRotations :
          /\ f.targetY % PI = 0
          /\ 2 * Abs(f.targetY - f.sy) <= PI
    /\ rc.op = "auto" => \E k \in -MaxEighths..MaxEighths :
                             2 * Abs(k * PI - rc.currentRotation.y) <= PI

\* an auto-rotation has started a full quarter turn from its target
C34_Witness ==
    /\ rc.op = "timer" /\ rc.isAutoRotating
    /\ \E f \in AutoRotations : f.targetY # 0 /\ 2 * Abs(f.targetY - f.sy) = PI

\* an angle of orbitControl in degrees, times ValueScale
DegreesScaled(a) == Abs(a) * maxRotationDrift

\* C35: the orbit offset written by DriftControl stays within the limit passed in
\* the constructor options, in both directions: |baseTheta| and |basePhi - 90| are
\* at most MAX_ROTATION_DRIFT degrees.
C35_OffsetWithinPassedLimit ==
    /\ DegreesScaled(dc.orbitControl.baseTheta) <= MAX_ROTATION_DRIFT * ValueScale
    /\ DegreesScaled(dc.orbitControl.basePhi) <= MAX_ROTATION_DRIFT * ValueScale

\* C36: rotationstart and rotationend alternate, beginning with rotationstart:
\* a rotationend is dispatched only while a rotationstart is open, and a
\* rotationstart only while none is.
C36_StartAndEndAlternate ==
    /\ [][Dispatched("rotationend")' => rc.startOpen]_vars
    /\ [][Dispatched("rotationstart")' => ~rc.startOpen]_vars

\* a callback of the kinds ks is pending
FramePending(ks) == \E f \in rc.frames : f.kind \in ks

\* C37: the flags agree with the pending callbacks: isAnimating is true exactly
\* when a frame of the drag or of the momentum loop is pending, isAutoRotating
\* exactly when a frame of an auto-rotation is.
C37_FlagsAgreeWithFrames ==
    /\ rc.isAnimating <=> FramePending({"drag", "momentum"})
    /\ rc.isAutoRotating <=> FramePending({"auto"})

\* C38: while a drag session is active no auto-rotate delay timer is pending, also
\* when the pointer went down while the loop of the previous session was running.
C38_NoTimerWhileDragging == rc.isDragging => rc.autoRotateTimer = NoTimer

\* the pointer went down for a second session while the easing of the first,
\* which rotated the gem, was still running
C38_Witness ==
    /\ rc.op = "pointerdown" /\ rc.isDragging
    /\ rc.isAnimating /\ FramePending({"drag", "momentum"}) /\ rc.hasManualRotation
    /\ sessions = 2

\* C39: a DriftControl has at most one orientation listener registered on the
\* window and at most one motion detection timer pending, however often the
\* overlay is shown again and the permission granted again.
C39_OneListenerOneTimer ==
    /\ dc.windowListeners <= 1
    /\ dc.timers <= 1
    /\ dc.windowListeners = 1 <=> <<"window", "deviceorientation">> \in dc.listeners
    /\ dc.timers = 1 <=> dc.motionDetectionTimer # NoTimer

\* the permission has been granted again and the handler of the earlier grant
\* replaced, its timer having run out
C39_Witness ==
    /\ dc.op \in {"click", "permission"} /\ dc.removedHandler
    /\ dc.windowListeners = 1 /\ dc.timers = 1
    /\ dc.motionDetectionTimer = MotionDetectionDelay

\* the latest step of the element dispatched the event
PlayerDispatched(name) == \E i \in DOMAIN gp.events : gp.events[i] = name

\* C40: sceneloaded is dispatched for a scene load only after the safety timer
\* started for that load has run out and the start event has fired since the load
\* began, and at most once per load: while the timer of the load has time left,
\* no sceneloaded is dispatched.
C40_SceneLoadedAfterOwnTimer ==
    /\ gp.dispatches <= 1
    /\ PlayerDispatched("sceneloaded")
          => /\ gp.sceneStarted
             /\ \A t \in gp.timers : t.load = gp.load => t.left = 0

====
